---- MODULE Spec2Model ----
(***************************************************************************)
(* Model of the auto-sync pipeline of the workflow editor:                 *)
(*   sync/scan.ts, sync/parse.ts, sync/merge.ts, sync/validate.ts and the  *)
(*   poll loop of daemon.ts.                                               *)
(*                                                                         *)
(* Encoding of JavaScript values                                           *)
(*   - an object is a record; a property that is undefined is a field that *)
(*     is not in the DOMAIN of the record (Has);                           *)
(*   - a string the code computes or takes apart (struct name, step id,    *)
(*     journey id, label, name) is a tuple of one-character strings, so    *)
(*     that slugify, startsWith and slice are computed, not assumed;       *)
(*   - a file path is the tuple of its "/"-separated segments, so that     *)
(*     startsWith on a directory prefix is a prefix test on tuples;        *)
(*   - string concatenation is \o on these tuples.                         *)
(***************************************************************************)
EXTENDS Integers, Sequences, FiniteSets, TLC

VARIABLES
    \* ---- environment: the watched git repository -----------------------
    history,          \* history[r] = tree (path -> content) of revision r; HEAD = Len(history)
    \* ---- durable storage ----------------------------------------------
    cursorFile,       \* sync/.last-commit: a revision, or NoSha when the file is absent or empty
    graphFile,        \* workflow-defs.json: [exists, defs]
    \* ---- daemon.ts: module state --------------------------------------
    state,            \* DaemonState (status, lastCommit, updatesApplied, pendingReview, consecutiveErrors, lastUpdate)
    pollTimer,        \* the handle kept in pollTimer: 0 = null, i = the timer last armed by chain i
    chains,           \* chains[i]: one tick chain (timer armed / tick running pollCycle and where) with the cycle's locals
    cooldowns,        \* number of pending cooldown timers set by checkErrorThreshold
    \* ---- observation of the run (history variables) --------------------
    obs,              \* what the cycles did: last good revision, snapshot at cycle start, ...
    \* ---- pure-function harness ------------------------------------------
    fn                \* inputs and result of the pure function being exercised

vars == <<history, cursorFile, graphFile, state, pollTimer, chains, cooldowns, obs, fn>>

schedVars == <<history, cursorFile, graphFile, state, pollTimer, chains, cooldowns, obs>>

(***************************************************************************)
(* Bounds                                                                  *)
(***************************************************************************)
MaxRev == 2            \* revisions of the watched repository explored
MaxChains == 2         \* tick chains (armed timer or running tick) that can exist at once
MaxPrevJourneys == 2   \* journeys of the previous graph given to validate
MaxCandJourneys == 2   \* journeys with steps of the candidate graph given to validate
MaxFillJourneys == 4   \* further empty journeys appended to the candidate graph
MaxDiffFiles == 2      \* files changed in one diff handed to merge

MaxUnread == 1      \* files of one scan whose content cannot be fetched

MaxEdgeFragments == 3      \* navigation constructs in one parsed text

(***************************************************************************)
(* Generic helpers                                                         *)
(***************************************************************************)
Has(r, f) == f \in DOMAIN r

Put(r, f, v) == [k \in (DOMAIN r) \cup {f} |-> IF k = f THEN v ELSE r[k]]

Range(s) == {s[i] : i \in 1..Len(s)}

Includes(s, x) == \E i \in 1..Len(s) : s[i] = x

IsPrefix(p, s) == Len(p) <= Len(s) /\ \A i \in 1..Len(p) : s[i] = p[i]

Take(s, n) == SubSeq(s, 1, n)

\* the first of a set of indices, 0 when there is none (find / first match of a loop)
FirstOf(indices) ==
    IF indices = {} THEN 0 ELSE CHOOSE i \in indices : \A k \in indices : i <= k

(***************************************************************************)
(* sync/validate.ts                                                        *)
(***************************************************************************)
VALID_TYPES == {"action", "display", "decision", "input", "system"}

MaxJourneysAdded == 3

MaxJourneysRemoved == 1

Err(kind, jid, sid, ref, delta) ==
    [kind |-> kind, journey |-> jid, step |-> sid, ref |-> ref, delta |-> delta]

UndefinedText == <<"u", "n", "d", "e", "f", "i", "n", "e", "d">>

\* `${journey.id}` : the text "undefined" when the property is missing
JourneyIdText(j) == IF Has(j, "id") THEN j.id ELSE UndefinedText

StepIdText(s) == IF Has(s, "id") THEN s.id ELSE UndefinedText

\* `${journey.id}::${step.id}`
Key(jid, sid) == jid \o <<":", ":">> \o sid

\* current.journeys || []
JourneysOrEmpty(defs) == IF Has(defs, "journeys") THEN defs.journeys ELSE <<>>

StepsOrEmpty(j) == IF Has(j, "steps") THEN j.steps ELSE <<>>

\* !x is false: the property is present and is not the empty string
Truthy(r, f) == Has(r, f) /\ r[f] # <<>>

\* the same for the enumerated strings of the model (step.type)
TruthyEnum(r, f) == Has(r, f) /\ r[f] # ""

\* the Set currentStepIds in insertion order: keys of the non-deprecated steps of current
RECURSIVE CurrentStepKeys(_, _, _, _)
CurrentStepKeys(journeys, ji, si, acc) ==
    IF ji > Len(journeys) THEN acc
    ELSE LET j == journeys[ji]
             steps == StepsOrEmpty(j)
         IN IF si > Len(steps) THEN CurrentStepKeys(journeys, ji + 1, 1, acc)
            ELSE LET s == steps[si]
                     key == Key(JourneyIdText(j), StepIdText(s))
                     dep == Has(s, "deprecated") /\ s.deprecated
                 IN CurrentStepKeys(journeys, ji, si + 1,
                        IF ~dep /\ ~Includes(acc, key) THEN Append(acc, key) ELSE acc)

currentStepIds(current) == CurrentStepKeys(JourneysOrEmpty(current), 1, 1, <<>>)

\* mutant of DeltaErrors: the bound on added journeys is off by one
DeltaErrors_OffByOne(current, incoming) ==
    LET delta == Len(incoming.journeys) - Len(JourneysOrEmpty(current))
    IN (IF delta >= MaxJourneysAdded
        THEN <<Err("too-many-journeys-added", <<>>, <<>>, <<>>, delta)>> ELSE <<>>)
       \o
       (IF delta < -MaxJourneysRemoved
        THEN <<Err("too-many-journeys-removed", <<>>, <<>>, <<>>, delta)>> ELSE <<>>)

\* check 2
DeltaErrors(current, incoming) ==
    LET delta == Len(incoming.journeys) - Len(JourneysOrEmpty(current))
    IN (IF delta > MaxJourneysAdded
        THEN <<Err("too-many-journeys-added", <<>>, <<>>, <<>>, delta)>> ELSE <<>>)
       \o
       (IF delta < -MaxJourneysRemoved
        THEN <<Err("too-many-journeys-removed", <<>>, <<>>, <<>>, delta)>> ELSE <<>>)

\* mutant of NextRefErrors: next[] entries are not checked
NextRefErrors_Unchecked(jid, sid, next, i, journeyStepIds) == <<>>

\* check 7 on one step: one error per next[] entry that is no step id of the journey
RECURSIVE NextRefErrors(_, _, _, _, _)
NextRefErrors(jid, sid, next, i, journeyStepIds) ==
    IF i > Len(next) THEN <<>>
    ELSE (IF next[i] \notin journeyStepIds
          THEN <<Err("next-ref-not-found", jid, sid, next[i], 0)>> ELSE <<>>)
         \o NextRefErrors(jid, sid, next, i + 1, journeyStepIds)

\* checks 4-7 on the steps of one journey; threads errors and globalStepIds
RECURSIVE StepLoop(_, _, _, _, _)
StepLoop(jid, steps, i, journeyStepIds, acc) ==
    IF i > Len(steps) THEN acc
    ELSE LET s == steps[i]
         IN IF ~Truthy(s, "id")
            THEN StepLoop(jid, steps, i + 1, journeyStepIds,
                     [acc EXCEPT !.errors = Append(@, Err("step-missing-id", jid, <<>>, <<>>, 0))])
            ELSE LET sid == s.id
                     e4 == (IF ~Truthy(s, "label") THEN <<Err("missing-label", jid, sid, <<>>, 0)>> ELSE <<>>)
                           \o (IF ~Truthy(s, "screen") THEN <<Err("missing-screen", jid, sid, <<>>, 0)>> ELSE <<>>)
                           \o (IF ~Has(s, "swiftFile") THEN <<Err("missing-swiftFile", jid, sid, <<>>, 0)>> ELSE <<>>)
                           \o (IF ~TruthyEnum(s, "type") THEN <<Err("missing-type", jid, sid, <<>>, 0)>> ELSE <<>>)
                           \o (IF ~Has(s, "next") THEN <<Err("missing-next", jid, sid, <<>>, 0)>> ELSE <<>>)
                     e5 == IF TruthyEnum(s, "type") /\ s.type \notin VALID_TYPES
                           THEN <<Err("invalid-type", jid, sid, <<>>, 0)>> ELSE <<>>
                     globalKey == Key(jid, sid)
                     dup == globalKey \in acc.globalStepIds
                     e6 == IF dup THEN <<Err("duplicate-step-id", jid, sid, <<>>, 0)>> ELSE <<>>
                     e7 == IF Has(s, "next") THEN NextRefErrors(jid, sid, s.next, 1, journeyStepIds) ELSE <<>>
                 IN StepLoop(jid, steps, i + 1, journeyStepIds,
                        [errors |-> acc.errors \o e4 \o e5 \o e6 \o e7,
                         globalStepIds |-> acc.globalStepIds \cup {globalKey}])

\* check 9 for one incoming journey: keys of current under this journey id whose step id is gone
RECURSIVE RemovedErrors(_, _, _, _)
RemovedErrors(keys, i, jid, journeyStepIds) ==
    IF i > Len(keys) THEN <<>>
    ELSE LET key == keys[i]
             pre == jid \o <<":", ":">>
             stepId == SubSeq(key, Len(pre) + 1, Len(key))
         IN (IF IsPrefix(pre, key) /\ stepId \notin journeyStepIds
             THEN <<Err("step-removed", jid, stepId, <<>>, 0)>> ELSE <<>>)
            \o RemovedErrors(keys, i + 1, jid, journeyStepIds)

\* the loop over incoming.journeys (checks 3-9)
RECURSIVE JourneyLoop(_, _, _, _)
JourneyLoop(journeys, i, keys, acc) ==
    IF i > Len(journeys) THEN acc
    ELSE LET j == journeys[i]
             jid == JourneyIdText(j)
             e3 == (IF ~Truthy(j, "id") THEN <<Err("journey-missing-id", <<>>, <<>>, <<>>, 0)>> ELSE <<>>)
                   \o (IF ~Truthy(j, "name") THEN <<Err("missing-name", jid, <<>>, <<>>, 0)>> ELSE <<>>)
                   \o (IF ~Has(j, "description") THEN <<Err("missing-description", jid, <<>>, <<>>, 0)>> ELSE <<>>)
         IN IF ~Has(j, "steps")
            THEN JourneyLoop(journeys, i + 1, keys,
                     [acc EXCEPT !.errors = @ \o e3 \o <<Err("missing-steps-array", jid, <<>>, <<>>, 0)>>])
            ELSE LET journeyStepIds == {j.steps[k].id : k \in {n \in 1..Len(j.steps) : Has(j.steps[n], "id")}}
                     afterSteps == StepLoop(jid, j.steps, 1, journeyStepIds,
                                       [acc EXCEPT !.errors = @ \o e3])
                     e9 == RemovedErrors(keys, 1, jid, journeyStepIds)
                 IN JourneyLoop(journeys, i + 1, keys,
                        [afterSteps EXCEPT !.errors = @ \o e9])

validate(current, incoming) ==
    IF ~Has(incoming, "journeys")
    THEN [ok |-> FALSE, errors |-> <<Err("missing-journeys-array", <<>>, <<>>, <<>>, 0)>>]
    ELSE LET res == JourneyLoop(incoming.journeys, 1, currentStepIds(current),
                        [errors |-> DeltaErrors(current, incoming), globalStepIds |-> {}])
         IN [ok |-> res.errors = <<>>, errors |-> res.errors]

(***************************************************************************)
(* sync/merge.ts                                                           *)
(***************************************************************************)
UpperChars == <<"A", "B", "C", "D", "E", "F", "G", "H", "I", "J", "K", "L", "M",
                "N", "O", "P", "Q", "R", "S", "T", "U", "V", "W", "X", "Y", "Z">>

LowerChars == <<"a", "b", "c", "d", "e", "f", "g", "h", "i", "j", "k", "l", "m",
                "n", "o", "p", "q", "r", "s", "t", "u", "v", "w", "x", "y", "z">>

DigitChars == {"0", "1", "2", "3", "4", "5", "6", "7", "8", "9"}

IsUpper(c) == Includes(UpperChars, c)

toLowerCase(c) ==
    IF IsUpper(c) THEN LowerChars[CHOOSE i \in 1..Len(UpperChars) : UpperChars[i] = c] ELSE c

toUpperCase(c) ==
    IF Includes(LowerChars, c) THEN UpperChars[CHOOSE i \in 1..Len(LowerChars) : LowerChars[i] = c] ELSE c

\* .replace(/([A-Z])/g, "-$1")
RECURSIVE DashBeforeUpper(_)
DashBeforeUpper(t) ==
    IF t = <<>> THEN <<>>
    ELSE (IF IsUpper(Head(t)) THEN <<"-", Head(t)>> ELSE <<Head(t)>>) \o DashBeforeUpper(Tail(t))

\* .replace(/-+/g, "-")
RECURSIVE CollapseDashes(_)
CollapseDashes(t) ==
    IF Len(t) < 2 THEN t
    ELSE IF t[1] = "-" /\ t[2] = "-" THEN CollapseDashes(Tail(t))
    ELSE <<t[1]>> \o CollapseDashes(Tail(t))

StripLeadingDash(t) == IF t # <<>> /\ t[1] = "-" THEN Tail(t) ELSE t

StripTrailingDash(t) == IF t # <<>> /\ t[Len(t)] = "-" THEN Take(t, Len(t) - 1) ELSE t

slugify(name) ==
    LET dashed == DashBeforeUpper(name)
        lower == [i \in 1..Len(dashed) |-> toLowerCase(dashed[i])]
        noLead == StripLeadingDash(lower)
        clean == [i \in 1..Len(noLead) |->
                    IF Includes(LowerChars, noLead[i]) \/ noLead[i] \in DigitChars \/ noLead[i] = "-"
                    THEN noLead[i] ELSE "-"]
    IN StripTrailingDash(StripLeadingDash(CollapseDashes(clean)))

OnboardingPrefix == <<"ExampleApp", "Sources", "UI", "Onboarding">>

SharePrefix == <<"ExampleAppShare">>

ActionPrefix == <<"ExampleAppAction">>

FirstLaunchId == <<"f", "i", "r", "s", "t", "-", "l", "a", "u", "n", "c", "h">>

CaptureViaShareId == <<"c", "a", "p", "t", "u", "r", "e", "-", "v", "i", "a", "-", "s", "h", "a", "r", "e">>

CaptureViaActionId == <<"c", "a", "p", "t", "u", "r", "e", "-", "v", "i", "a", "-", "a", "c", "t", "i", "o", "n">>

UnassignedId == <<"u", "n", "a", "s", "s", "i", "g", "n", "e", "d">>

\* a path "dir/.../file" starts with "dir/.../" when the directory segments are a proper prefix
StartsWithDir(filePath, prefix) == Len(filePath) > Len(prefix) /\ IsPrefix(prefix, filePath)

\* step.next.some(nextId => journey.steps.find(s => s.id === nextId)?.screen === structName)
PresentsTo(journey, step, structName) ==
    \E n \in 1..Len(step.next) :
        LET k == FirstOf({x \in 1..Len(journey.steps) :
                             Has(journey.steps[x], "id") /\ journey.steps[x].id = step.next[n]})
        IN k # 0 /\ Has(journey.steps[k], "screen") /\ journey.steps[k].screen = structName

\* "any parsed edge points here from an existing step": an edge of the view names the step's screen
PointsAt(parsedView, step) ==
    /\ Truthy(step, "screen")
    /\ \E e \in 1..Len(parsedView.presentsTo) : parsedView.presentsTo[e].destination = step.screen

assignJourney(filePath, structName, parsedView, defs) ==
    IF StartsWithDir(filePath, OnboardingPrefix) THEN FirstLaunchId
    ELSE IF StartsWithDir(filePath, SharePrefix) THEN CaptureViaShareId
    ELSE IF StartsWithDir(filePath, ActionPrefix) THEN CaptureViaActionId
    ELSE LET a == FirstOf({x \in 1..Len(defs.journeys) :
                      \E k \in 1..Len(defs.journeys[x].steps) :
                          PresentsTo(defs.journeys[x], defs.journeys[x].steps[k], structName)})
             b == FirstOf({x \in 1..Len(defs.journeys) :
                      \E k \in 1..Len(defs.journeys[x].steps) :
                          PointsAt(parsedView, defs.journeys[x].steps[k])})
         IN IF a # 0 THEN defs.journeys[a].id
            ELSE IF b # 0 THEN defs.journeys[b].id
            ELSE UnassignedId

\* journeyId.split("-").map(w => w.charAt(0).toUpperCase() + w.slice(1)).join(" ")
JourneyName(journeyId) ==
    [i \in 1..Len(journeyId) |->
        IF journeyId[i] = "-" THEN " "
        ELSE IF i = 1 \/ journeyId[i - 1] = "-" THEN toUpperCase(journeyId[i])
        ELSE journeyId[i]]

JourneyIndex(defs, journeyId) ==
    FirstOf({x \in 1..Len(defs.journeys) : Has(defs.journeys[x], "id") /\ defs.journeys[x].id = journeyId})

\* the graph after ensureJourney (the journey is then at JourneyIndex)
ensureJourney(defs, journeyId) ==
    IF JourneyIndex(defs, journeyId) # 0 THEN defs
    ELSE [defs EXCEPT !.journeys = Append(@,
             [id |-> journeyId, name |-> JourneyName(journeyId),
              description |-> "Auto-generated journey", steps |-> <<>>])]

\* <<journey index, step index>> of the first step tracking filePath, <<0, 0>> for null
findStepByFile(defs, filePath) ==
    LET tracks(s) == Has(s, "swiftFile") /\ s.swiftFile = filePath
        ji == FirstOf({x \in 1..Len(defs.journeys) :
                  \E k \in 1..Len(defs.journeys[x].steps) : tracks(defs.journeys[x].steps[k])})
    IN IF ji = 0 THEN <<0, 0>>
       ELSE <<ji, FirstOf({k \in 1..Len(defs.journeys[ji].steps) : tracks(defs.journeys[ji].steps[k])})>>

\* the inner loops of resolveNext for one edge: every step whose screen is the destination
RECURSIVE ResolveEdge(_, _, _, _, _)
ResolveEdge(destination, defs, ji, si, nextIds) ==
    IF ji > Len(defs.journeys) THEN nextIds
    ELSE LET steps == defs.journeys[ji].steps
         IN IF si > Len(steps) THEN ResolveEdge(destination, defs, ji + 1, 1, nextIds)
            ELSE LET s == steps[si]
                 IN ResolveEdge(destination, defs, ji, si + 1,
                        IF Has(s, "screen") /\ s.screen = destination /\ ~Includes(nextIds, StepIdText(s))
                        THEN Append(nextIds, StepIdText(s)) ELSE nextIds)

RECURSIVE ResolveEdges(_, _, _, _)
ResolveEdges(edges, i, defs, nextIds) ==
    IF i > Len(edges) THEN nextIds
    ELSE ResolveEdges(edges, i + 1, defs, ResolveEdge(edges[i].destination, defs, 1, 1, nextIds))

resolveNext(parsedView, defs) == ResolveEdges(parsedView.presentsTo, 1, defs, <<>>)

\* parsedByPath.get(path): index in parsedViews of the last view of that path, 0 for undefined
ParsedByPath(parsedViews, path) ==
    IF \E i \in 1..Len(parsedViews) : parsedViews[i].filePath = path
    THEN CHOOSE i \in 1..Len(parsedViews) :
             /\ parsedViews[i].filePath = path
             /\ \A k \in (i + 1)..Len(parsedViews) : parsedViews[k].filePath # path
    ELSE 0

TodoLabel(structName) == <<"T", "O", "D", "O", ":", " ">> \o structName

Change(action, journeyId, stepId) == [action |-> action, journeyId |-> journeyId, stepId |-> stepId]

\* mutant of AddNewStep: the new step is not flagged for review
AddNewStep_NoReview(m, file, parsed) ==
    LET journeyId == assignJourney(file.path, parsed.structName, parsed, m.defs)
        defs1 == ensureJourney(m.defs, journeyId)
        ji == JourneyIndex(defs1, journeyId)
        stepId == slugify(parsed.structName)
        step == [id |-> stepId, label |-> TodoLabel(parsed.structName),
                 screen |-> parsed.structName, swiftFile |-> file.path,
                 type |-> parsed.inferredType, phase |-> "Unassigned",
                 next |-> resolveNext(parsed, defs1)]
    IN [defs |-> [defs1 EXCEPT !.journeys[ji].steps = Append(@, step)],
        changes |-> Append(m.changes, Change("add", journeyId, stepId)),
        reviewCount |-> m.reviewCount]

\* the body of the newFiles loop after its two guards: create the step, log the change
AddNewStep(m, file, parsed) ==
    LET journeyId == assignJourney(file.path, parsed.structName, parsed, m.defs)
        defs1 == ensureJourney(m.defs, journeyId)
        ji == JourneyIndex(defs1, journeyId)
        stepId == slugify(parsed.structName)
        next == resolveNext(parsed, defs1)
        step == [id |-> stepId, label |-> TodoLabel(parsed.structName),
                 screen |-> parsed.structName, swiftFile |-> file.path,
                 type |-> parsed.inferredType, phase |-> "Unassigned",
                 next |-> next, needsReview |-> TRUE]
    IN [defs |-> [defs1 EXCEPT !.journeys[ji].steps = Append(@, step)],
        changes |-> Append(m.changes, Change("add", journeyId, stepId)),
        reviewCount |-> m.reviewCount + 1]

\* mutant of MergeNewFile: a re-delivered file revives the step that tracks it
MergeNewFile_Revive(m, file, parsedViews) ==
    LET pi == ParsedByPath(parsedViews, file.path)
        found == findStepByFile(m.defs, file.path)
    IN IF pi = 0 THEN m
       ELSE IF found # <<0, 0>>
            THEN [m EXCEPT !.defs.journeys[found[1]].steps[found[2]] = Put(@, "deprecated", FALSE)]
       ELSE AddNewStep(m, file, parsedViews[pi])

\* mutant of MergeNewFile: no guard against a file that a step already tracks
MergeNewFile_Unguarded(m, file, parsedViews) ==
    LET pi == ParsedByPath(parsedViews, file.path)
    IN IF pi = 0 THEN m ELSE AddNewStep(m, file, parsedViews[pi])

\* one iteration of the loop over scanResult.newFiles
MergeNewFile(m, file, parsedViews) ==
    LET pi == ParsedByPath(parsedViews, file.path)
    IN IF pi = 0 THEN m
       ELSE IF findStepByFile(m.defs, file.path) # <<0, 0>> THEN m
       ELSE AddNewStep(m, file, parsedViews[pi])

\* mutant of MergeRemovedFile: a record is logged also when the step is already deprecated
MergeRemovedFile_Relogged(m, filePath) ==
    LET found == findStepByFile(m.defs, filePath)
    IN IF found = <<0, 0>> THEN m
       ELSE LET journey == m.defs.journeys[found[1]]
                step == journey.steps[found[2]]
            IN [m EXCEPT
                  !.defs.journeys[found[1]].steps[found[2]] = Put(step, "deprecated", TRUE),
                  !.changes = Append(@, Change("deprecate", journey.id, StepIdText(step)))]

\* mutant of MergeRemovedFile: the step of a removed file is deleted from its journey
MergeRemovedFile_Deletes(m, filePath) ==
    LET found == findStepByFile(m.defs, filePath)
    IN IF found = <<0, 0>> THEN m
       ELSE LET journey == m.defs.journeys[found[1]]
                step == journey.steps[found[2]]
            IN [m EXCEPT
                  !.defs.journeys[found[1]].steps =
                      SubSeq(@, 1, found[2] - 1) \o SubSeq(@, found[2] + 1, Len(@)),
                  !.changes = Append(@, Change("deprecate", journey.id, StepIdText(step)))]

\* one iteration of the loop over scanResult.removedFiles
MergeRemovedFile(m, filePath) ==
    LET found == findStepByFile(m.defs, filePath)
    IN IF found = <<0, 0>> THEN m
       ELSE LET journey == m.defs.journeys[found[1]]
                step == journey.steps[found[2]]
            IN IF Has(step, "deprecated") /\ step.deprecated THEN m
               ELSE [m EXCEPT
                       !.defs.journeys[found[1]].steps[found[2]] = Put(step, "deprecated", TRUE),
                       !.changes = Append(@, Change("deprecate", journey.id, StepIdText(step)))]

\* mutant of MergeModifiedFile: the edge labels are kept whole when next shrinks
MergeModifiedFile_NoTrim(m, file, parsedViews) ==
    LET pi == ParsedByPath(parsedViews, file.path)
        found == findStepByFile(m.defs, file.path)
    IN IF pi = 0 THEN m
       ELSE IF found = <<0, 0>> THEN m
       ELSE LET journey == m.defs.journeys[found[1]]
                step == journey.steps[found[2]]
                newNext == resolveNext(parsedViews[pi], m.defs)
            IN IF step.next = newNext THEN m
               ELSE [m EXCEPT
                       !.defs.journeys[found[1]].steps[found[2]] = [step EXCEPT !.next = newNext],
                       !.changes = Append(@, Change("update-edges", journey.id, StepIdText(step)))]

\* mutant of MergeModifiedFile: a modified file that no step tracks gets a new step
MergeModifiedFile_Adopts(m, file, parsedViews) ==
    LET pi == ParsedByPath(parsedViews, file.path)
    IN IF pi = 0 THEN m
       ELSE IF findStepByFile(m.defs, file.path) = <<0, 0>>
            THEN AddNewStep(m, file, parsedViews[pi])
       ELSE m

\* one iteration of the loop over scanResult.modifiedFiles
MergeModifiedFile(m, file, parsedViews) ==
    LET pi == ParsedByPath(parsedViews, file.path)
        found == findStepByFile(m.defs, file.path)
    IN IF pi = 0 THEN m
       ELSE IF found = <<0, 0>> THEN m
       ELSE LET journey == m.defs.journeys[found[1]]
                step == journey.steps[found[2]]
                newNext == resolveNext(parsedViews[pi], m.defs)
                trimmed == IF Has(step, "edgeLabels") /\ Len(newNext) < Len(step.edgeLabels)
                           THEN [step EXCEPT !.edgeLabels = Take(@, Len(newNext))]
                           ELSE step
            IN IF step.next = newNext THEN m
               ELSE [m EXCEPT
                       !.defs.journeys[found[1]].steps[found[2]] = [trimmed EXCEPT !.next = newNext],
                       !.changes = Append(@, Change("update-edges", journey.id, StepIdText(step)))]

RECURSIVE MergeNewFiles(_, _, _, _)
MergeNewFiles(m, files, i, parsedViews) ==
    IF i > Len(files) THEN m
    ELSE MergeNewFiles(MergeNewFile(m, files[i], parsedViews), files, i + 1, parsedViews)

RECURSIVE MergeRemovedFiles(_, _, _)
MergeRemovedFiles(m, paths, i) ==
    IF i > Len(paths) THEN m
    ELSE MergeRemovedFiles(MergeRemovedFile(m, paths[i]), paths, i + 1)

RECURSIVE MergeModifiedFiles(_, _, _, _)
MergeModifiedFiles(m, files, i, parsedViews) ==
    IF i > Len(files) THEN m
    ELSE MergeModifiedFiles(MergeModifiedFile(m, files[i], parsedViews), files, i + 1, parsedViews)

\* JSON.stringify leaves out the properties whose value is undefined; an object lists
\* the names of such properties in its field undef
JsonObject(r) == [f \in DOMAIN r \ {"undef"} |-> r[f]]

\* mutant of JsonStep: the clone loses the edge labels of a step
JsonStep_NoLabels(step) == [f \in DOMAIN step \ {"undef", "edgeLabels"} |-> step[f]]

JsonStep(step) == JsonObject(step)

JsonJourney(journey) ==
    LET j == JsonObject(journey)
    IN IF Has(j, "steps") THEN [j EXCEPT !.steps = [k \in 1..Len(@) |-> JsonStep(@[k])]] ELSE j

\* JSON.parse(JSON.stringify(current)): the value of the deep clone
JsonClone(current) ==
    LET d == JsonObject(current)
    IN IF Has(d, "journeys") THEN [d EXCEPT !.journeys = [k \in 1..Len(@) |-> JsonJourney(@[k])]] ELSE d

\* the objects of a graph: the journeys array, journey ji (<<ji, 0>>), step si of journey ji
Nodes(defs) ==
    IF ~Has(defs, "journeys") THEN {}
    ELSE {"journeys"}
         \cup {<<ji, 0>> : ji \in 1..Len(defs.journeys)}
         \cup UNION {{<<ji, si>> : si \in 1..Len(StepsOrEmpty(defs.journeys[ji]))} :
                         ji \in 1..Len(defs.journeys)}

\* mutant of CloneShares: a shallow copy {...current}, which keeps every object of the input
CloneShares_Shallow(current) == Nodes(current)

\* the objects of the clone that are objects of the input: JSON.parse builds every one anew
CloneShares(current) == {}

\* returns [defs (the field json of the result), changes, reviewCount]
merge(current, scanResult, parsedViews) ==
    LET m0 == [defs |-> JsonClone(current), changes |-> <<>>, reviewCount |-> 0]
        m1 == MergeNewFiles(m0, scanResult.newFiles, 1, parsedViews)
        m2 == MergeRemovedFiles(m1, scanResult.removedFiles, 1)
    IN MergeModifiedFiles(m2, scanResult.modifiedFiles, 1, parsedViews)

(***************************************************************************)
(* The watched repository (environment of sync/scan.ts)                    *)
(***************************************************************************)
NoSha == 0

NameAa == <<"A", "a", "V", "i", "e", "w">>

NameBb == <<"B", "b", "V", "i", "e", "w">>

NameCc == <<"C", "c", "V", "i", "e", "w">>

PathA == <<"ExampleApp", "Sources", "UI", "Onboarding", "Aa", ".swift">>

PathB == <<"ExampleApp", "Sources", "UI", "Views", "Bb", ".swift">>

PathC == <<"ExampleApp", "Sources", "UI", "Views", "Cc", ".swift">>

\* the paths of the model in the order git lists them (sorted by name)
AllPaths == <<PathA, PathB, PathC>>

Paths == Range(AllPaths)

NoFile == [absent |-> TRUE]

Edge(destination, mechanism) == [destination |-> destination, mechanism |-> mechanism]

\* Swift text is a sequence of tokens: keywords and punctuation marks, and identifiers
Kw(s) == [kw |-> s]

Id(name) == [id |-> name]

\* .sheet(...) { FooView() }  or  NavigationLink { FooView() }
EdgeText(e) ==
    (IF e.mechanism = "sheet" THEN <<Kw(".sheet"), Kw("("), Kw(")"), Kw("{")>>
     ELSE <<Kw("NavigationLink"), Kw("{")>>)
    \o <<Id(e.destination), Kw("("), Kw(")"), Kw("}")>>

RECURSIVE EdgesText(_, _)
EdgesText(edges, i) == IF i > Len(edges) THEN <<>> ELSE EdgeText(edges[i]) \o EdgesText(edges, i + 1)

\* the text of a view that presents the edges and whose markers are those of the type
Swift(struct, edges, type) ==
    IF struct = <<>> THEN <<Kw("class"), Id(<<"F", "o", "o">>), Kw("{"), Kw("}")>>
    ELSE <<Kw("struct"), Id(struct), Kw(":"), Kw("View"), Kw("{")>>
         \o (IF type = "system" THEN <<>> ELSE <<Kw("var"), Kw("body"), Kw(":")>>)
         \o (IF type = "input" THEN <<Kw("TextField"), Kw("("), Kw(")")>> ELSE <<>>)
         \o (IF type = "action"
             THEN <<Kw("Button"), Kw("("), Kw(")"), Kw("{"), Kw("dismiss"), Kw("("), Kw(")"), Kw("}")>>
             ELSE <<>>)
         \o (IF type = "decision" THEN <<Kw("if"), Id(<<"x">>), Kw("{")>> ELSE <<>>)
         \o EdgesText(edges, 1)
         \o (IF type = "decision" THEN <<Kw("NavigationLink"), Kw("}")>> ELSE <<>>)
         \o <<Kw("}")>>

\* a file of the repository: its text, and what its author wrote it to be (the struct declared
\* as a View, <<>> when there is none, the views it presents and its kind)
Text(struct, edges, type) ==
    [struct |-> struct, edges |-> edges, type |-> type, text |-> Swift(struct, edges, type)]

\* the versions of each file that commits of the model can produce
Versions(path) ==
    IF path = PathA THEN {Text(NameAa, <<Edge(NameCc, "sheet")>>, "display")}
    ELSE IF path = PathB THEN {Text(NameBb, <<>>, "display"),
                               Text(NameBb, <<Edge(NameCc, "navigationLink")>>, "decision")}
    ELSE {Text(NameCc, <<>>, "input")}

EmptyTree == [p \in Paths |-> NoFile]

TreeB == [EmptyTree EXCEPT ![PathB] = Text(NameBb, <<>>, "display")]

TreeBC == [TreeB EXCEPT ![PathC] = Text(NameCc, <<>>, "input")]

TreeC == [TreeBC EXCEPT ![PathB] = NoFile]

HeadRev == Len(history)

(***************************************************************************)
(* sync/scan.ts                                                            *)
(***************************************************************************)
WatchedDirs == {<<"ExampleApp", "Sources", "UI", "Views">>,
                <<"ExampleApp", "Sources", "UI", "Onboarding">>,
                <<"ExampleApp", "Sources", "UI", "Components">>,
                <<"ExampleAppShare">>,
                <<"ExampleAppAction">>}

WatchedFiles == {<<"ExampleApp", "ContentView", ".swift">>,
                 <<"ExampleApp", "ExampleAppApp", ".swift">>}

isWatched(filePath) ==
    \/ /\ Len(filePath) >= 2
       /\ filePath[Len(filePath)] = ".swift"
       /\ Take(filePath, Len(filePath) - 2) \in WatchedDirs
    \/ filePath \in WatchedFiles

\* the lines of `git diff old..HEAD --name-status`, as the status letter of each path ("" = no line)
DiffStatus(old, new, path) ==
    IF old[path] = NoFile /\ new[path] # NoFile THEN "A"
    ELSE IF old[path] # NoFile /\ new[path] = NoFile THEN "D"
    ELSE IF old[path] # new[path] THEN "M"
    ELSE ""

ChangedFile(tree, path) == [path |-> path, content |-> tree[path]]

\* the paths whose content scan fetches with `git show HEAD:path`
Fetched(hist, lastSHA) ==
    IF lastSHA = NoSha \/ lastSHA = Len(hist) THEN {}
    ELSE {q \in Paths : isWatched(q) /\ DiffStatus(hist[lastSHA], hist[Len(hist)], q) \in {"A", "M"}}

\* the sets of paths whose `git show` can fail in one scan
Unreadable(hist, lastSHA) ==
    {u \in SUBSET Fetched(hist, lastSHA) : Cardinality(u) <= MaxUnread}

\* mutant of scan: without a cursor the head is compared with the empty tree
scan_FullFirst(hist, lastSHA, unread) ==
    LET currentSHA == Len(hist)
    IN IF lastSHA = currentSHA
       THEN [currentSHA |-> currentSHA, newFiles |-> <<>>, removedFiles |-> <<>>, modifiedFiles |-> <<>>]
       ELSE LET old == IF lastSHA = NoSha THEN EmptyTree ELSE hist[lastSHA]
                new == hist[currentSHA]
                with(status) == SelectSeq(AllPaths,
                                   LAMBDA q : /\ isWatched(q)
                                              /\ DiffStatus(old, new, q) = status
                                              /\ (status = "D" \/ q \notin unread))
                added == with("A")
                modified == with("M")
            IN [currentSHA |-> currentSHA,
                newFiles |-> [k \in 1..Len(added) |-> ChangedFile(new, added[k])],
                removedFiles |-> with("D"),
                modifiedFiles |-> [k \in 1..Len(modified) |-> ChangedFile(new, modified[k])]]

\* scan(appPath, lastSHA) against the repository hist; `git show` fails for the paths unread
scan(hist, lastSHA, unread) ==
    LET currentSHA == Len(hist)
    IN IF lastSHA = NoSha \/ lastSHA = currentSHA
       THEN [currentSHA |-> currentSHA, newFiles |-> <<>>, removedFiles |-> <<>>, modifiedFiles |-> <<>>]
       ELSE LET old == hist[lastSHA]
                new == hist[currentSHA]
                with(status) == SelectSeq(AllPaths,
                                   LAMBDA q : /\ isWatched(q)
                                              /\ DiffStatus(old, new, q) = status
                                              /\ (status = "D" \/ q \notin unread))
                added == with("A")
                modified == with("M")
            IN [currentSHA |-> currentSHA,
                newFiles |-> [k \in 1..Len(added) |-> ChangedFile(new, added[k])],
                removedFiles |-> with("D"),
                modifiedFiles |-> [k \in 1..Len(modified) |-> ChangedFile(new, modified[k])]]

totalChanged(scanResult) ==
    Len(scanResult.newFiles) + Len(scanResult.removedFiles) + Len(scanResult.modifiedFiles)

(***************************************************************************)
(* sync/parse.ts                                                           *)
(***************************************************************************)
\* null is the record NoView
NoView == [null |-> TRUE]

\* content[i] is the keyword or punctuation mark s
AtTok(content, i, s) == i >= 1 /\ i <= Len(content) /\ content[i] = Kw(s)

AnyTok(content, i, ss) == \E s \in ss : AtTok(content, i, s)

WordKeywords == {"struct", "class", "View", "var", "body", "if", "Button", "dismiss", "Task",
                 "NavigationLink", "Tab", "TextField", "TextEditor", "Picker", "Toggle",
                 "SecureField", "Slider", "Stepper", "Text", "VStack"}

\* \w+
IsWord(content, i) ==
    i >= 1 /\ i <= Len(content) /\ (Has(content[i], "id") \/ AnyTok(content, i, WordKeywords))

\* m ? m[1] : null
NoName == <<>>

\* /\bstruct\s+(\w+)\s*:\s*View\b/ matches at token i
STRUCT_RE(content, i) ==
    /\ AtTok(content, i, "struct")
    /\ IsWord(content, i + 1) /\ Has(content[i + 1], "id")
    /\ AtTok(content, i + 2, ":")
    /\ AtTok(content, i + 3, "View")

extractStructName(content) ==
    LET m == FirstOf({i \in 1..Len(content) : STRUCT_RE(content, i)})
    IN IF m = 0 THEN NoName ELSE content[m + 1].id

\* [regex, mechanism]: the tokens a pattern starts with, whether `(...)` follows, the mechanism
NAV_PATTERNS ==
    <<[head |-> ".sheet", args |-> TRUE, mechanism |-> "sheet"],
      [head |-> ".fullScreenCover", args |-> TRUE, mechanism |-> "fullScreenCover"],
      [head |-> "NavigationLink", args |-> FALSE, mechanism |-> "navigationLink"],
      [head |-> ".navigationDestination", args |-> TRUE, mechanism |-> "navigationDestination"],
      [head |-> "Tab", args |-> FALSE, mechanism |-> "tabView"]>>

\* (\w+View): an identifier of more than four characters that ends in View
IsViewName(content, i) ==
    /\ i >= 1 /\ i <= Len(content) /\ Has(content[i], "id")
    /\ Len(content[i].id) > 4
    /\ SubSeq(content[i].id, Len(content[i].id) - 3, Len(content[i].id)) = <<"V", "i", "e", "w">>

\* \{[^{]*?(\w+View)\s*\( with the brace at token b: the position of the captured name, 0
\* when the text does not match
Capture(content, b) ==
    IF ~AtTok(content, b, "{") THEN 0
    ELSE LET brace == FirstOf({k \in (b + 1)..Len(content) : AtTok(content, k, "{")})
             last == IF brace = 0 THEN Len(content) ELSE brace - 1
         IN FirstOf({k \in (b + 1)..last : IsViewName(content, k) /\ AtTok(content, k + 1, "(")})

\* the pattern matches with its first token at i: the position of the captured name, else 0
MatchAt(pattern, content, i) ==
    IF ~AtTok(content, i, pattern.head) THEN 0
    ELSE IF ~pattern.args THEN Capture(content, i + 1)
    ELSE IF ~AtTok(content, i + 1, "(") THEN 0
    ELSE LET close == FirstOf({k \in (i + 2)..Len(content) : AtTok(content, k, ")")})
         IN IF close = 0 THEN 0 ELSE Capture(content, close + 1)

\* mutant of Push: every match is pushed, seen or not
Push_Always(edges, edge) == Append(edges, edge)

\* if (!seen.has(key)) { seen.add(key); edges.push({ destination, mechanism }); }
Push(edges, edge) == IF Includes(edges, edge) THEN edges ELSE Append(edges, edge)

\* while ((m = re.exec(content)) !== null): the matches of one pattern from lastIndex on
RECURSIVE ExecLoop(_, _, _, _)
ExecLoop(pattern, content, lastIndex, edges) ==
    LET start == FirstOf({i \in lastIndex..Len(content) : MatchAt(pattern, content, i) # 0})
    IN IF start = 0 THEN edges
       ELSE LET at == MatchAt(pattern, content, start)
                edge == Edge(content[at].id, pattern.mechanism)
            IN ExecLoop(pattern, content, at + 2, Push(edges, edge))

RECURSIVE PatternLoop(_, _, _)
PatternLoop(content, p, edges) ==
    IF p > Len(NAV_PATTERNS) THEN edges
    ELSE PatternLoop(content, p + 1, ExecLoop(NAV_PATTERNS[p], content, 1, edges))

extractEdges(content) == PatternLoop(content, 1, <<>>)

INPUT_INDICATORS(content) ==
    \E i \in 1..Len(content) :
        AnyTok(content, i, {"TextField", "TextEditor", "Picker", "Toggle", "SecureField",
                            "Slider", "Stepper"})

DISMISS_INDICATORS(content) ==
    \E i \in 1..Len(content) :
        \/ AtTok(content, i, "dismiss") /\ AtTok(content, i + 1, "(") /\ AtTok(content, i + 2, ")")
        \/ AtTok(content, i, "presentationMode.wrappedValue.dismiss")

BUTTON_INDICATORS(content) ==
    \E i \in 1..Len(content) : AtTok(content, i, "Button") /\ AtTok(content, i + 1, "(")

CONDITIONAL_NAV(content) ==
    \E i \in 1..Len(content) :
        /\ AtTok(content, i, "if") /\ IsWord(content, i + 1) /\ AtTok(content, i + 2, "{")
        /\ \E k \in (i + 3)..Len(content) :
               AnyTok(content, k, {"NavigationLink", ".sheet", ".fullScreenCover"})

BACKGROUND_ONLY(content) ==
    \E i \in 1..Len(content) :
        AnyTok(content, i, {"Task", ".task", ".onAppear"}) /\ AtTok(content, i + 1, "{")

HAS_ANY_BODY_CONTENT(content) ==
    \E i \in 1..Len(content) :
        AtTok(content, i, "var") /\ AtTok(content, i + 1, "body") /\ AtTok(content, i + 2, ":")

\* mutant of inferType: the conditional navigation is tested before the input controls
inferType_DecisionFirst(content) ==
    IF CONDITIONAL_NAV(content) THEN "decision"
    ELSE IF INPUT_INDICATORS(content) THEN "input"
    ELSE IF BUTTON_INDICATORS(content) /\ DISMISS_INDICATORS(content) THEN "action"
    ELSE IF \/ ~HAS_ANY_BODY_CONTENT(content)
            \/ (~BUTTON_INDICATORS(content) /\ BACKGROUND_ONLY(content)) THEN "system"
    ELSE "display"

inferType(content) ==
    IF INPUT_INDICATORS(content) THEN "input"
    ELSE IF CONDITIONAL_NAV(content) THEN "decision"
    ELSE IF BUTTON_INDICATORS(content) /\ DISMISS_INDICATORS(content) THEN "action"
    ELSE IF \/ ~HAS_ANY_BODY_CONTENT(content)
            \/ (~BUTTON_INDICATORS(content) /\ BACKGROUND_ONLY(content)) THEN "system"
    ELSE "display"

\* mutant of parseSwiftFile: a file without a struct that is a View gets a descriptor too
parseSwiftFile_NoNull(filePath, content) ==
    [structName |-> extractStructName(content.text), filePath |-> filePath,
     presentsTo |-> extractEdges(content.text), inferredType |-> inferType(content.text)]

\* parseSwiftFile reads the text of the file only
parseSwiftFile(filePath, content) ==
    LET structName == extractStructName(content.text)
    IN IF structName = NoName THEN NoView
       ELSE [structName |-> structName, filePath |-> filePath,
             presentsTo |-> extractEdges(content.text), inferredType |-> inferType(content.text)]

\* allFiles.map(parseSwiftFile).filter(p => p !== null)
RECURSIVE ParseAll(_, _)
ParseAll(files, i) ==
    IF i > Len(files) THEN <<>>
    ELSE LET p == parseSwiftFile(files[i].path, files[i].content)
         IN (IF p = NoView THEN <<>> ELSE <<p>>) \o ParseAll(files, i + 1)

(***************************************************************************)
(* daemon.ts: state, boot                                                  *)
(***************************************************************************)
ErrorThreshold == 5

Chains == 1..MaxChains

Nil == [nil |-> TRUE]

\* soft: the best-effort steps of the running cycle that failed and were logged
\* unread: the files of the running cycle whose content scan could not fetch
NoChain == [pc |-> "none", start |-> Nil, scanResult |-> Nil, parsedViews |-> <<>>,
            currentDefs |-> Nil, mergeResult |-> Nil, soft |-> {}, unread |-> {}]

ArmedChain == [NoChain EXCEPT !.pc = "armed"]

\* what a missing workflow-defs.json is read as
DefaultDefs == [journeys |-> <<>>]

\* the graph an accepted cycle leaves when the repository went from tree old to tree new
Synced(defs, old, new) ==
    LET res == scan(<<old, new>>, 1, {})
    IN merge(defs, res, ParseAll(res.newFiles \o res.modifiedFiles, 1)).defs

\* graphs of a daemon that has followed the repository: Bb added, then Cc added, then Bb removed
GraphB == Synced(DefaultDefs, EmptyTree, TreeB)

GraphBC == Synced(GraphB, TreeB, TreeBC)

GraphC == Synced(GraphBC, TreeBC, TreeC)

NoFn == [op |-> "none"]

\* the state after boot: the cursor is loaded, startPoll() has armed the first tick
InitStorage ==
    \/ /\ history \in {<<EmptyTree>>, <<TreeB>>}
       /\ cursorFile = NoSha
       /\ graphFile = [exists |-> FALSE, defs |-> DefaultDefs]
    \/ /\ \E g \in {<<TreeBC, GraphBC>>, <<TreeC, GraphC>>} :
            /\ history = <<g[1]>>
            /\ graphFile = [exists |-> TRUE, defs |-> g[2]]
       /\ cursorFile = 1

Init ==
    /\ InitStorage
    /\ state = [status |-> "running", lastCommit |-> cursorFile, updatesApplied |-> 0,
                pendingReview |-> 0, consecutiveErrors |-> 0]
    /\ pollTimer = 1
    /\ chains = [i \in Chains |-> IF i = 1 THEN ArmedChain ELSE NoChain]
    /\ cooldowns = 0
    /\ obs = [lastGood |-> NoSha, graphRev |-> cursorFile, written |-> FALSE, restarted |-> FALSE]
    /\ fn = NoFn

(***************************************************************************)
(* The repository moves: one commit changing one tracked file              *)
(***************************************************************************)
Commit ==
    /\ HeadRev < MaxRev
    /\ \E p \in Paths : \E v \in Versions(p) \cup {NoFile} :
         /\ v # history[HeadRev][p]
         /\ history' = Append(history, [history[HeadRev] EXCEPT ![p] = v])
    /\ UNCHANGED <<cursorFile, graphFile, state, pollTimer, chains, cooldowns, obs, fn>>

(***************************************************************************)
(* daemon.ts: checkErrorThreshold, startPoll                               *)
(***************************************************************************)
Paused(st) == st.consecutiveErrors >= ErrorThreshold

\* the state after checkErrorThreshold()
checkErrorThreshold(st) == IF Paused(st) THEN [st EXCEPT !.status = "paused"] ELSE st

\* the cooldown timers pending after checkErrorThreshold()
CooldownsAfter(st) == IF Paused(st) THEN cooldowns + 1 ELSE cooldowns

\* mutant of ClearTimeout: startPoll leaves the armed timer in place
ClearTimeout_Kept(cs, handle) == cs

\* clearTimeout(pollTimer): cancels the timer when it has not fired yet
ClearTimeout(cs, handle) ==
    IF handle # 0 /\ cs[handle].pc = "armed" THEN [cs EXCEPT ![handle] = NoChain] ELSE cs

FreeSlots(cs) == {i \in Chains : cs[i].pc = "none"}

\* startPoll(): chains and pollTimer after it, using the free slot k
startPoll(k) ==
    LET cleared == ClearTimeout(chains, pollTimer)
    IN /\ k \in FreeSlots(cleared)
       /\ \A j \in FreeSlots(cleared) : k <= j
       /\ chains' = [cleared EXCEPT ![k] = ArmedChain]
       /\ pollTimer' = k

\* the cooldown timer set by checkErrorThreshold fires
CooldownFire ==
    /\ cooldowns > 0
    /\ cooldowns' = cooldowns - 1
    /\ state' = [state EXCEPT !.status = "running", !.consecutiveErrors = 0]
    /\ \E k \in Chains : startPoll(k)
    /\ obs' = [obs EXCEPT !.restarted = TRUE]
    /\ UNCHANGED <<history, cursorFile, graphFile, fn>>

(***************************************************************************)
(* daemon.ts: tick and pollCycle, one action per await                     *)
(***************************************************************************)
At(i, pc) == chains[i].pc = pc

\* pollCycle returns to tick, which arms the next timer
Rearm(i) ==
    /\ chains' = [chains EXCEPT ![i] = ArmedChain]
    /\ pollTimer' = i

\* an exception reaches the catch block: count it, then await logger.error
Throw(i) ==
    /\ state' = [state EXCEPT !.consecutiveErrors = @ + 1]
    /\ chains' = [chains EXCEPT ![i].pc = "catch", ![i].soft = {}]
    /\ UNCHANGED <<history, cursorFile, graphFile, pollTimer, cooldowns, obs, fn>>

\* the timer of chain i fires: tick() runs up to its first await
TickFire(i) ==
    /\ At(i, "armed")
    /\ IF state.status = "running"
       THEN /\ chains' = [chains EXCEPT ![i].pc = "log_tick",
                                        ![i].start = [graph |-> graphFile, cursor |-> cursorFile,
                                                       applied |-> state.updatesApplied,
                                                       pending |-> state.pendingReview,
                                                       errors |-> state.consecutiveErrors]]
            /\ UNCHANGED pollTimer
       ELSE Rearm(i)
    /\ UNCHANGED <<history, cursorFile, graphFile, state, cooldowns, obs, fn>>

\* await logger.info("POLL_TICK") resolves: scan is called
LogTickOk(i) ==
    /\ At(i, "log_tick")
    /\ chains' = [chains EXCEPT ![i].pc = "scan"]
    /\ UNCHANGED <<history, cursorFile, graphFile, state, pollTimer, cooldowns, obs, fn>>

\* await logger.info("POLL_TICK") rejects outside the try: tick() rejects, no timer is armed
LogTickFail(i) ==
    /\ At(i, "log_tick")
    /\ chains' = [chains EXCEPT ![i] = NoChain]
    /\ UNCHANGED <<history, cursorFile, graphFile, state, pollTimer, cooldowns, obs, fn>>

\* scan resolves with no change and UPDATE_SKIPPED is logged: lastCommit is set, the cursor write starts
ScanNoChange(i) ==
    /\ At(i, "scan")
    /\ \E unread \in Unreadable(history, state.lastCommit) :
         LET res == scan(history, state.lastCommit, unread)
         IN /\ totalChanged(res) = 0
            /\ state' = [state EXCEPT !.lastCommit = res.currentSHA]
            /\ chains' = [chains EXCEPT ![i].pc = "skip_save", ![i].scanResult = res,
                                        ![i].unread = unread]
    /\ UNCHANGED <<history, cursorFile, graphFile, pollTimer, cooldowns, obs, fn>>

\* scan resolves with changes and COMMIT_DETECTED is logged: files are parsed, the graph read starts
ScanChanged(i) ==
    /\ At(i, "scan")
    /\ \E unread \in Unreadable(history, state.lastCommit) :
         LET res == scan(history, state.lastCommit, unread)
         IN /\ totalChanged(res) > 0
            /\ chains' = [chains EXCEPT ![i].pc = "load", ![i].scanResult = res,
                                        ![i].unread = unread,
                                        ![i].parsedViews = ParseAll(res.newFiles \o res.modifiedFiles, 1)]
    /\ UNCHANGED <<history, cursorFile, graphFile, state, pollTimer, cooldowns, obs, fn>>

\* a git command of scan, or the log call after it, throws
ScanFail(i) ==
    /\ At(i, "scan")
    /\ Throw(i)

\* mutant of SkipSaveOk: the no-change path does not reset the error counter
SkipSaveOk_KeepErrors(i) ==
    /\ At(i, "skip_save")
    /\ cursorFile' = chains[i].scanResult.currentSHA
    /\ Rearm(i)
    /\ obs' = [obs EXCEPT !.lastGood = chains[i].scanResult.currentSHA]
    /\ UNCHANGED <<history, graphFile, state, cooldowns, fn>>

\* await saveLastCommit on the no-change path resolves; the cycle returns
SkipSaveOk(i) ==
    /\ At(i, "skip_save")
    /\ cursorFile' = chains[i].scanResult.currentSHA
    /\ state' = [state EXCEPT !.consecutiveErrors = 0]
    /\ Rearm(i)
    /\ obs' = [obs EXCEPT !.lastGood = chains[i].scanResult.currentSHA]
    /\ UNCHANGED <<history, graphFile, cooldowns, fn>>

SkipSaveFail(i) ==
    /\ At(i, "skip_save")
    /\ Throw(i)

\* workflow-defs.json is read (or defaulted), merge runs, SCAN_COMPLETE is being logged
LoadOk(i) ==
    /\ At(i, "load")
    /\ LET currentDefs == IF graphFile.exists THEN graphFile.defs ELSE DefaultDefs
       IN chains' = [chains EXCEPT ![i].pc = "validate", ![i].currentDefs = currentDefs,
                        ![i].mergeResult = merge(currentDefs, chains[i].scanResult, chains[i].parsedViews)]
    /\ UNCHANGED <<history, cursorFile, graphFile, state, pollTimer, cooldowns, obs, fn>>

LoadFail(i) ==
    /\ At(i, "load")
    /\ Throw(i)

\* SCAN_COMPLETE is logged and the candidate passes validate: the baseline snapshot starts
ValidateOk(i) ==
    /\ At(i, "validate")
    /\ validate(chains[i].currentDefs, chains[i].mergeResult.defs).ok
    /\ chains' = [chains EXCEPT ![i].pc = "baseline"]
    /\ UNCHANGED <<history, cursorFile, graphFile, state, pollTimer, cooldowns, obs, fn>>

\* SCAN_COMPLETE is logged and validate rejects: VALIDATION_FAILED is being logged
ValidateReject(i) ==
    /\ At(i, "validate")
    /\ ~validate(chains[i].currentDefs, chains[i].mergeResult.defs).ok
    /\ chains' = [chains EXCEPT ![i].pc = "reject_log"]
    /\ UNCHANGED <<history, cursorFile, graphFile, state, pollTimer, cooldowns, obs, fn>>

\* the SCAN_COMPLETE log call throws
ValidateFail(i) ==
    /\ At(i, "validate")
    /\ Throw(i)

\* VALIDATION_FAILED is logged: the error is counted, the threshold checked, the cycle returns
RejectLogOk(i) ==
    /\ At(i, "reject_log")
    /\ LET counted == [state EXCEPT !.consecutiveErrors = @ + 1]
       IN /\ state' = checkErrorThreshold(counted)
          /\ cooldowns' = CooldownsAfter(counted)
    /\ Rearm(i)
    /\ UNCHANGED <<history, cursorFile, graphFile, obs, fn>>

RejectLogFail(i) ==
    /\ At(i, "reject_log")
    /\ Throw(i)

\* mutant of BaselineDone: a failed baseline snapshot is counted as a cycle error
BaselineDone_Counted(i) ==
    /\ At(i, "baseline")
    /\ \E failed \in BOOLEAN :
         /\ chains' = [chains EXCEPT ![i].pc = "write",
                                     ![i].soft = IF failed THEN @ \cup {"baseline"} ELSE @]
         /\ state' = [state EXCEPT !.consecutiveErrors = IF failed THEN @ + 1 ELSE @]
    /\ UNCHANGED <<history, cursorFile, graphFile, pollTimer, cooldowns, obs, fn>>

\* the baseline snapshot is saved, or fails and the warning is logged: the graph write starts
BaselineDone(i) ==
    /\ At(i, "baseline")
    /\ \E failed \in BOOLEAN :
         chains' = [chains EXCEPT ![i].pc = "write",
                                  ![i].soft = IF failed THEN @ \cup {"baseline"} ELSE @]
    /\ UNCHANGED <<history, cursorFile, graphFile, state, pollTimer, cooldowns, obs, fn>>

\* the baseline snapshot fails and logging the warning throws
BaselineFail(i) ==
    /\ At(i, "baseline")
    /\ Throw(i)

\* Bun.write(WORKFLOWS_PATH) resolves: the candidate is on disk, the mermaid export starts
WriteOk(i) ==
    /\ At(i, "write")
    /\ graphFile' = [exists |-> TRUE, defs |-> chains[i].mergeResult.defs]
    /\ chains' = [chains EXCEPT ![i].pc = "export"]
    /\ obs' = [obs EXCEPT !.lastGood = chains[i].scanResult.currentSHA,
                          !.graphRev = chains[i].scanResult.currentSHA,
                          !.written = TRUE]
    /\ UNCHANGED <<history, cursorFile, state, pollTimer, cooldowns, fn>>

WriteFail(i) ==
    /\ At(i, "write")
    /\ Throw(i)

\* the export ran, or failed and the warning is logged: state is updated, the cursor write starts
ExportDone(i) ==
    /\ At(i, "export")
    /\ state' = [state EXCEPT !.lastCommit = chains[i].scanResult.currentSHA,
                              !.updatesApplied = @ + 1,
                              !.pendingReview = @ + chains[i].mergeResult.reviewCount,
                              !.consecutiveErrors = 0]
    /\ \E failed \in BOOLEAN :
         chains' = [chains EXCEPT ![i].pc = "save",
                                  ![i].soft = IF failed THEN @ \cup {"export"} ELSE @]
    /\ UNCHANGED <<history, cursorFile, graphFile, pollTimer, cooldowns, obs, fn>>

\* the export fails and logging the warning throws
ExportFail(i) ==
    /\ At(i, "export")
    /\ Throw(i)

\* await saveLastCommit resolves: MERGE_APPLIED is being logged
SaveOk(i) ==
    /\ At(i, "save")
    /\ cursorFile' = chains[i].scanResult.currentSHA
    /\ chains' = [chains EXCEPT ![i].pc = "log_applied"]
    /\ UNCHANGED <<history, graphFile, state, pollTimer, cooldowns, obs, fn>>

SaveFail(i) ==
    /\ At(i, "save")
    /\ Throw(i)

\* MERGE_APPLIED is logged; the cycle returns
LogAppliedOk(i) ==
    /\ At(i, "log_applied")
    /\ Rearm(i)
    /\ UNCHANGED <<history, cursorFile, graphFile, state, cooldowns, obs, fn>>

LogAppliedFail(i) ==
    /\ At(i, "log_applied")
    /\ Throw(i)

\* logger.error in the catch block resolves: the threshold is checked, the cycle returns
CatchDone(i) ==
    /\ At(i, "catch")
    /\ state' = checkErrorThreshold(state)
    /\ cooldowns' = CooldownsAfter(state)
    /\ Rearm(i)
    /\ UNCHANGED <<history, cursorFile, graphFile, obs, fn>>

\* logger.error in the catch block rejects: pollCycle and tick() reject, no timer is armed
CatchFail(i) ==
    /\ At(i, "catch")
    /\ chains' = [chains EXCEPT ![i] = NoChain]
    /\ UNCHANGED <<history, cursorFile, graphFile, state, pollTimer, cooldowns, obs, fn>>

Next ==
    \/ Commit
    \/ CooldownFire
    \/ \E i \in Chains : TickFire(i)
    \/ \E i \in Chains : LogTickOk(i)
    \/ \E i \in Chains : LogTickFail(i)
    \/ \E i \in Chains : ScanNoChange(i)
    \/ \E i \in Chains : ScanChanged(i)
    \/ \E i \in Chains : ScanFail(i)
    \/ \E i \in Chains : SkipSaveOk(i)
    \/ \E i \in Chains : SkipSaveFail(i)
    \/ \E i \in Chains : LoadOk(i)
    \/ \E i \in Chains : LoadFail(i)
    \/ \E i \in Chains : ValidateOk(i)
    \/ \E i \in Chains : ValidateReject(i)
    \/ \E i \in Chains : ValidateFail(i)
    \/ \E i \in Chains : RejectLogOk(i)
    \/ \E i \in Chains : RejectLogFail(i)
    \/ \E i \in Chains : BaselineDone(i)
    \/ \E i \in Chains : BaselineFail(i)
    \/ \E i \in Chains : WriteOk(i)
    \/ \E i \in Chains : WriteFail(i)
    \/ \E i \in Chains : ExportDone(i)
    \/ \E i \in Chains : ExportFail(i)
    \/ \E i \in Chains : SaveOk(i)
    \/ \E i \in Chains : SaveFail(i)
    \/ \E i \in Chains : LogAppliedOk(i)
    \/ \E i \in Chains : LogAppliedFail(i)
    \/ \E i \in Chains : CatchDone(i)
    \/ \E i \in Chains : CatchFail(i)

Spec == Init /\ [][Next]_vars

(***************************************************************************)
(* validate as a pure function: inputs drawn from bounded sets             *)
(***************************************************************************)
IdA == <<"a">>

IdB == <<"b">>

IdJ1 == <<"j", "1">>

IdJ2 == <<"j", "2">>

\* makeStep / makeJourney of sync.test.ts
makeStep(id, next) ==
    [id |-> id, label |-> id, screen |-> id, swiftFile |-> <<id, ".swift">>,
     type |-> "display", phase |-> "Unassigned", next |-> next]

makeJourney(id, steps) == [id |-> id, name |-> id, description |-> "", steps |-> steps]

Deprecated(step) == Put(step, "deprecated", TRUE)

PrevShapes ==
    {makeJourney(IdJ1, <<makeStep(IdA, <<>>), makeStep(IdB, <<>>)>>),
     makeJourney(IdJ1, <<makeStep(IdA, <<>>), Deprecated(makeStep(IdB, <<>>))>>),
     makeJourney(IdJ2, <<makeStep(IdA, <<>>)>>)}

\* an object without the properties fs
Drop(r, fs) == [f \in DOMAIN r \ fs |-> r[f]]

\* candidates that came through JSON: a step without id and label, a journey without steps,
\* a step without screen
CandShapes ==
    PrevShapes \cup
    {makeJourney(IdJ1, <<makeStep(IdA, <<>>)>>),
     makeJourney(IdJ2, <<makeStep(IdA, <<IdB>>)>>),
     makeJourney(IdJ2, <<>>),
     makeJourney(IdJ1, <<Drop(makeStep(IdA, <<>>), {"id", "label"})>>),
     Drop(makeJourney(IdJ1, <<>>), {"steps"}),
     makeJourney(IdJ2, <<Drop(makeStep(IdA, <<>>), {"screen"})>>)}

SeqsUpTo(S, n) == UNION {[1..k -> S] : k \in 0..n}

DigitSeq == <<"1", "2", "3", "4", "5", "6", "7", "8", "9">>

\* k empty journeys f1 .. fk
Fill(k) == [n \in 1..k |-> makeJourney(<<"f", DigitSeq[n]>>, <<>>)]

\* the calls with up to maxFill journeys appended to the candidate
ValidateInputs(maxFill) ==
    {[op |-> "validate", pc |-> "call", current |-> [journeys |-> p],
      incoming |-> [journeys |-> c \o Fill(k)], result |-> Nil] :
        p \in SeqsUpTo(PrevShapes, MaxPrevJourneys),
        c \in SeqsUpTo(CandShapes, MaxCandJourneys),
        k \in 0..maxFill}
    \cup
    {[op |-> "validate", pc |-> "call", current |-> [journeys |-> p],
      incoming |-> [version |-> "1.0"], result |-> Nil] :
        p \in SeqsUpTo(PrevShapes, MaxPrevJourneys)}

\* the scheduler is not running in the pure-function specifications
SchedulerOff ==
    /\ history = <<EmptyTree>>
    /\ cursorFile = NoSha
    /\ graphFile = [exists |-> FALSE, defs |-> DefaultDefs]
    /\ state = [status |-> "running", lastCommit |-> NoSha, updatesApplied |-> 0,
                pendingReview |-> 0, consecutiveErrors |-> 0]
    /\ pollTimer = 0
    /\ chains = [i \in Chains |-> NoChain]
    /\ cooldowns = 0
    /\ obs = [lastGood |-> NoSha, graphRev |-> NoSha, written |-> FALSE, restarted |-> FALSE]

InitValidate == SchedulerOff /\ fn \in ValidateInputs(MaxFillJourneys)

ValidateCall ==
    /\ fn.op = "validate"
    /\ fn.pc = "call"
    /\ fn' = [fn EXCEPT !.pc = "done", !.result = validate(fn.current, fn.incoming)]
    /\ UNCHANGED schedVars

NextValidate == ValidateCall

SpecValidate == InitValidate /\ [][NextValidate]_vars

Validated == fn.op = "validate" /\ fn.pc = "done"

HasError(kind) == \E e \in 1..Len(fn.result.errors) : fn.result.errors[e].kind = kind

(***************************************************************************)
(* merge as a pure function: graphs, diffs and descriptors from bounded    *)
(* sets; the call, then a second call on its own output with the same diff *)
(***************************************************************************)
NameDd == <<"D", "d", "V", "i", "e", "w">>

NameEe == <<"E", "e", "V", "i", "e", "w">>

PathShare == <<"ExampleAppShare", "Dd", ".swift">>

PathAction == <<"ExampleAppAction", "Ee", ".swift">>

MergePaths == <<PathA, PathB, PathC, PathShare, PathAction>>

IdMain == <<"m", "a", "i", "n">>

\* swiftFile: null
NoPath == <<>>

\* makeStep(id, {screen, swiftFile, next}) of sync.test.ts
ViewStep(name, path, next) ==
    [makeStep(slugify(name), next) EXCEPT !.screen = name, !.swiftFile = path]

Labelled(step, labels) == Put(step, "edgeLabels", labels)

\* a graph arranged in the editor: Cc and Aa in the journey main, Bb not tracked
GraphMain ==
    [journeys |-> <<makeJourney(IdMain, <<ViewStep(NameCc, PathC, <<>>),
                                          ViewStep(NameAa, PathA, <<>>)>>)>>]

\* Bb presents Cc and Aa, with the edge labels Yes and No
GraphLabels ==
    [journeys |-> <<makeJourney(IdMain,
        <<Labelled(ViewStep(NameBb, PathB, <<slugify(NameCc), slugify(NameAa)>>), <<"Yes", "No">>),
          ViewStep(NameCc, PathC, <<>>),
          ViewStep(NameAa, PathA, <<>>)>>)>>]

\* Cc presents two steps drawn ahead of their files: screens Bb and Aa, swiftFile null
GraphPlaceholder ==
    [journeys |-> <<makeJourney(IdMain,
        <<ViewStep(NameCc, PathC, <<slugify(NameBb), slugify(NameAa)>>),
          ViewStep(NameBb, NoPath, <<>>),
          ViewStep(NameAa, NoPath, <<>>)>>)>>]

\* makeStep("bb", {deprecated: undefined}): a property present with the value undefined
GraphUndefined ==
    [journeys |-> <<makeJourney(IdMain,
        <<Put(ViewStep(NameBb, PathB, <<>>), "undef", {"deprecated"})>>)>>]

\* saved from the editor: Bb presents Cc only and carries two edge labels
GraphOverLabelled ==
    [journeys |-> <<makeJourney(IdMain,
        <<Labelled(ViewStep(NameBb, PathB, <<slugify(NameCc)>>), <<"Yes", "No">>),
          ViewStep(NameCc, PathC, <<>>)>>)>>]

IdTwin == <<"c", "c", "-", "v", "i", "e", "w", "-", "2">>

\* a step duplicated in the editor: two steps of the journey main show the screen Cc
GraphTwins ==
    [journeys |-> <<makeJourney(IdMain,
        <<ViewStep(NameCc, PathC, <<>>),
          [ViewStep(NameCc, NoPath, <<>>) EXCEPT !.id = IdTwin]>>)>>]

\* graphs merge can walk
MergeGraphs == {DefaultDefs, GraphBC, GraphC, GraphMain, GraphLabels, GraphPlaceholder,
                GraphUndefined, GraphOverLabelled, GraphTwins}

\* graphs without a journeys array or with a journey without steps: merge only clones them
\* when the diff is empty
MalformedGraphs == {[version |-> "1.0"],
                    [journeys |-> <<[id |-> IdMain, name |-> IdMain, description |-> ""]>>]}

\* the contents of each file that a diff of the harness can carry
MergeVersions(path) ==
    IF path = PathA THEN {Text(NameAa, <<>>, "display")}
    ELSE IF path = PathB THEN {Text(NameBb, <<>>, "display"),
                               Text(NameBb, <<Edge(NameCc, "sheet")>>, "decision"),
                               Text(NameBb, <<Edge(NameAa, "sheet")>>, "action"),
                               Text(NameBb, <<Edge(NameCc, "sheet"), Edge(NameAa, "sheet")>>, "system")}
    ELSE IF path = PathC THEN {Text(NameCc, <<>>, "input"), Text(<<>>, <<>>, "display"),
                               Text(NameBb, <<>>, "display")}
    ELSE IF path = PathShare THEN {Text(NameDd, <<>>, "display"),
                                   Text(NameDd, <<Edge(NameCc, "sheet")>>, "display")}
    ELSE {Text(NameEe, <<>>, "display")}

FileChanges ==
    {[path |-> q, status |-> "D", content |-> NoFile] : q \in Range(MergePaths)}
    \cup UNION {{[path |-> q, status |-> st, content |-> c] : st \in {"A", "M"}, c \in MergeVersions(q)} :
                   q \in Range(MergePaths)}

\* the diffs of at most n files, one status line per path
RECURSIVE DiffsUpTo(_)
DiffsUpTo(n) ==
    IF n = 0 THEN {{}}
    ELSE LET smaller == DiffsUpTo(n - 1)
         IN smaller \cup {d \cup {x} : d \in smaller,
                                        x \in FileChanges}

OnePerPath(d) == \A x \in d : \A y \in d : x.path = y.path => x = y

\* the ScanResult that scan builds from the status lines d
ScanOf(d) ==
    LET with(status) == SelectSeq(MergePaths, LAMBDA q : \E x \in d : x.path = q /\ x.status = status)
        file(q) == [path |-> q, content |-> (CHOOSE x \in d : x.path = q).content]
        added == with("A")
        modified == with("M")
    IN [currentSHA |-> 1,
        newFiles |-> [k \in 1..Len(added) |-> file(added[k])],
        removedFiles |-> with("D"),
        modifiedFiles |-> [k \in 1..Len(modified) |-> file(modified[k])]]

MergeInput(g, d) ==
    LET res == ScanOf(d)
    IN [op |-> "merge", pc |-> "call", current |-> g, scanResult |-> res,
        parsedViews |-> ParseAll(res.newFiles \o res.modifiedFiles, 1),
        result |-> Nil, inputAfter |-> Nil, shared |-> {}, again |-> Nil]

\* a commit that brings in a view of every area of the app at once
FirstImport ==
    {[path |-> PathA, status |-> "A", content |-> Text(NameAa, <<>>, "display")],
     [path |-> PathB, status |-> "A", content |-> Text(NameBb, <<>>, "display")],
     [path |-> PathShare, status |-> "A", content |-> Text(NameDd, <<>>, "display")],
     [path |-> PathAction, status |-> "A", content |-> Text(NameEe, <<>>, "display")]}

BulkDiffs == {d \in SUBSET FirstImport : Cardinality(d) >= 3}

\* the calls with a diff of up to maxFiles files, and the bulk diffs
MergeInputs(maxFiles) ==
    {MergeInput(g, d) : g \in MergeGraphs, d \in {x \in DiffsUpTo(maxFiles) : OnePerPath(x)}}
    \cup {MergeInput(g, d) : g \in {DefaultDefs, GraphMain}, d \in BulkDiffs}
    \cup {MergeInput(g, {}) : g \in MalformedGraphs}

\* the caller's graph after the call: the objects the clone shares with it hold what merge
\* left in them, an array the clone shares with it has the elements merge pushed
InputAfter(current, final, shared) ==
    IF ~Has(current, "journeys") THEN current
    ELSE LET stepAfter(ji, si) ==
                 IF <<ji, si>> \in shared THEN final.journeys[ji].steps[si]
                 ELSE current.journeys[ji].steps[si]
             journeyAfter(ji) ==
                 LET old == current.journeys[ji]
                     new == final.journeys[ji]
                 IN IF ~Has(old, "steps") THEN old
                    ELSE IF <<ji, 0>> \in shared
                    THEN [new EXCEPT !.steps = [si \in 1..Len(new.steps) |->
                             IF si <= Len(old.steps) THEN stepAfter(ji, si) ELSE new.steps[si]]]
                    ELSE [old EXCEPT !.steps = [si \in 1..Len(old.steps) |-> stepAfter(ji, si)]]
             count == IF "journeys" \in shared THEN Len(final.journeys) ELSE Len(current.journeys)
         IN [current EXCEPT !.journeys = [ji \in 1..count |->
                IF ji <= Len(current.journeys) THEN journeyAfter(ji) ELSE final.journeys[ji]]]

InitMerge == SchedulerOff /\ fn \in MergeInputs(MaxDiffFiles)

\* merge(current, scanResult, parsedViews) is called
MergeCall ==
    /\ fn.op = "merge"
    /\ fn.pc = "call"
    /\ LET result == merge(fn.current, fn.scanResult, fn.parsedViews)
       IN fn' = [fn EXCEPT !.pc = "done", !.result = result,
                           !.shared = CloneShares(fn.current),
                           !.inputAfter = InputAfter(fn.current, result.defs, CloneShares(fn.current))]
    /\ UNCHANGED schedVars

\* merge is called again with the same diff on the graph it returned
MergeAgain ==
    /\ fn.op = "merge"
    /\ fn.pc = "done"
    /\ fn' = [fn EXCEPT !.pc = "again",
                        !.again = merge(fn.result.defs, fn.scanResult, fn.parsedViews)]
    /\ UNCHANGED schedVars

NextMerge == MergeCall \/ MergeAgain

SpecMerge == InitMerge /\ [][NextMerge]_vars

Merged == fn.op = "merge" /\ fn.pc \in {"done", "again"}

(***************************************************************************)
(* Properties of the poll loop                                             *)
(***************************************************************************)
Live == {i \in Chains : chains[i].pc # "none"}

Running == {i \in Chains : chains[i].pc \notin {"none", "armed"}}

\* no cycle is in progress
AtBoundary == Running = {}

\* C1: across any sequence of cycles the persisted cursor never regresses, and after every
\* cycle it equals the revision of the most recent cycle that observed zero changes or had
\* its candidate graph validated and persisted
C1_CursorFollowsCycles ==
    /\ [](AtBoundary /\ obs.lastGood # NoSha => cursorFile = obs.lastGood)
    /\ [][cursorFile' >= cursorFile]_vars

\* C2: a cycle that ends as a failure (validator rejection or an exception) leaves the
\* persisted graph and the persisted cursor as they were at the start of that cycle
C2_FailedCycleLeavesStorage ==
    \A i \in Chains :
        chains[i].pc \in {"catch", "reject_log"} =>
            /\ graphFile = chains[i].start.graph
            /\ cursorFile = chains[i].start.cursor

\* C3: in no reachable state does the persisted graph hold the candidate of revision r
\* while the persisted cursor still holds an earlier revision
C3_GraphAndCursorAtomic == obs.written => cursorFile >= obs.graphRev

IsTombstoned(step) == Has(step, "deprecated") /\ step.deprecated

\* every step tombstoned in old is still in its journey, and tombstoned, in new
TombstonesKept(old, new) ==
    \A ji \in 1..Len(old.journeys) :
        \A si \in 1..Len(old.journeys[ji].steps) :
            LET j == old.journeys[ji]
                s == j.steps[si]
            IN IsTombstoned(s) =>
                 \E nj \in 1..Len(new.journeys) :
                     /\ new.journeys[nj].id = j.id
                     /\ \E ns \in 1..Len(new.journeys[nj].steps) :
                            /\ new.journeys[nj].steps[ns].id = s.id
                            /\ IsTombstoned(new.journeys[nj].steps[ns])

\* C4: once a node is tombstoned in an accepted graph, every later accepted graph still
\* has that node id in its container, tombstoned (also after its file is delivered again)
C4_TombstoneMonotonic == [][TombstonesKept(graphFile.defs, graphFile'.defs)]_vars

\* a cycle was accepted for a revision in which the file of a tombstoned step exists again
C4_Witness ==
    /\ obs.written
    /\ \E ji \in 1..Len(graphFile.defs.journeys) :
         \E si \in 1..Len(graphFile.defs.journeys[ji].steps) :
            LET s == graphFile.defs.journeys[ji].steps[si]
            IN IsTombstoned(s) /\ history[obs.graphRev][s.swiftFile] # NoFile

VanishedStep(prev, cand) ==
    \E ji \in 1..Len(prev.journeys) :
        \E si \in 1..Len(prev.journeys[ji].steps) :
            LET j == prev.journeys[ji]
                s == j.steps[si]
            IN /\ ~IsTombstoned(s)
               /\ ~\E nj \in 1..Len(cand.journeys) :
                      /\ cand.journeys[nj].id = j.id
                      /\ \E ns \in 1..Len(StepsOrEmpty(cand.journeys[nj])) :
                             /\ Has(cand.journeys[nj].steps[ns], "id")
                             /\ cand.journeys[nj].steps[ns].id = s.id

\* C5: validate returns ok=false whenever a node id that is non-tombstoned in previous is
\* absent from the same container of candidate, also when that whole container is absent
C5_VanishedStepRejected ==
    Validated /\ Has(fn.incoming, "journeys") /\ VanishedStep(fn.current, fn.incoming)
        => ~fn.result.ok

RefIntegrity(defs) ==
    \A ji \in 1..Len(defs.journeys) :
        \A si \in 1..Len(defs.journeys[ji].steps) :
            \A n \in 1..Len(defs.journeys[ji].steps[si].next) :
                \E k \in 1..Len(defs.journeys[ji].steps) :
                    defs.journeys[ji].steps[k].id = defs.journeys[ji].steps[si].next[n]

\* C6: in every graph the scheduler persists, each outgoingIds entry of each node is the id
\* of a node of the same container
C6_ReferenceIntegrity == obs.written => RefIntegrity(graphFile.defs)

\* a persisted graph that has an edge
C6_Witness ==
    /\ obs.written
    /\ \E ji \in 1..Len(graphFile.defs.journeys) :
         \E si \in 1..Len(graphFile.defs.journeys[ji].steps) :
            graphFile.defs.journeys[ji].steps[si].next # <<>>

Delta == Len(fn.incoming.journeys) - Len(fn.current.journeys)

\* C7: validate reports a container-count error exactly when delta > 3 or delta < -1;
\* +3 alone is accepted and +4 is rejected
C7_DeltaBound ==
    Validated /\ Has(fn.incoming, "journeys") =>
        /\ HasError("too-many-journeys-added") <=> Delta > 3
        /\ HasError("too-many-journeys-removed") <=> Delta < -1
        /\ Delta = 4 => ~fn.result.ok

\* three journeys added and nothing else wrong: accepted
C7_Witness == Validated /\ Has(fn.incoming, "journeys") /\ Delta = 3 /\ fn.result.ok

\* C8: when consecutiveErrors reaches 5 the status becomes Paused, and no cycle starts while
\* the status is Paused (the return to Running after the cooldown is CooldownFire)
C8_PauseAtThreshold ==
    /\ [](AtBoundary /\ state.consecutiveErrors >= 5 => state.status = "paused")
    /\ [][state.status = "paused" => \A i \in Chains : chains[i].pc = "armed" => chains'[i].pc \in {"armed", "none"}]_vars

\* C9: any exception raised at any point of a cycle is caught at the cycle boundary and the
\* scheduler keeps ticking: a tick is always running or scheduled
C9_SchedulerKeepsTicking == Live # {}

\* C10: at most one poll cycle is in progress and at most one tick chain is armed
C10_OneCycleOneChain == Cardinality(Running) <= 1 /\ Cardinality(Live) <= 1

\* a cycle is running after the cooldown timer restarted polling
C10_Witness == obs.restarted /\ \E i \in Chains : chains[i].pc = "scan"

\* C11: a cycle whose scan reports no added, removed or modified tracked file ends with the
\* cursor, in memory and persisted, at the scanned revision and consecutiveErrors at 0, and
\* with the persisted graph, updatesApplied and pendingReview as they were at its start
C11_NoChangeCycle ==
    [][\A i \in Chains :
          chains[i].pc = "skip_save" /\ chains'[i].pc = "armed" =>
              /\ totalChanged(chains[i].scanResult) = 0
              /\ cursorFile' = chains[i].scanResult.currentSHA
              /\ state'.lastCommit = chains[i].scanResult.currentSHA
              /\ state'.consecutiveErrors = 0
              /\ graphFile' = chains[i].start.graph
              /\ state'.updatesApplied = chains[i].start.applied
              /\ state'.pendingReview = chains[i].start.pending]_vars

\* a no-change cycle has moved the persisted cursor to a later revision, nothing was written
C11_Witness ==
    /\ AtBoundary
    /\ ~obs.written
    /\ obs.lastGood = HeadRev
    /\ cursorFile = HeadRev
    /\ HeadRev > 1

\* C12: a failed backup snapshot or side export does not increment consecutiveErrors and the
\* cycle goes on; when it completes, the candidate graph and the cursor are persisted,
\* consecutiveErrors is 0 and the update is counted
C12_BestEffortNonFatal ==
    [][\A i \in Chains :
          /\ chains'[i].soft # {} /\ chains'[i].soft # chains[i].soft =>
                /\ state'.consecutiveErrors <= state.consecutiveErrors
                /\ chains'[i].pc \in {"write", "save"}
          /\ chains[i].soft # {} /\ chains[i].pc = "save" /\ chains'[i].pc = "log_applied" =>
                /\ graphFile' = [exists |-> TRUE, defs |-> chains[i].mergeResult.defs]
                /\ cursorFile' = chains[i].scanResult.currentSHA
                /\ state'.lastCommit = chains[i].scanResult.currentSHA
                /\ state'.consecutiveErrors = 0
                /\ state'.updatesApplied = chains[i].start.applied + 1]_vars

\* a cycle whose snapshot and export both failed has persisted the graph and the cursor
C12_Witness ==
    \E i \in Chains :
        /\ chains[i].pc = "log_applied"
        /\ chains[i].soft = {"baseline", "export"}
        /\ cursorFile = chains[i].scanResult.currentSHA
        /\ graphFile.defs = chains[i].mergeResult.defs

(***************************************************************************)
(* Properties of merge                                                     *)
(***************************************************************************)
\* positions <<journey, step>> of the steps of a graph
StepNodes(defs) ==
    UNION {{<<ji, si>> : si \in 1..Len(StepsOrEmpty(JourneysOrEmpty(defs)[ji]))} :
              ji \in 1..Len(JourneysOrEmpty(defs))}

NodeAt(defs, n) == defs.journeys[n[1]].steps[n[2]]

TrackingNodes(defs, path) ==
    {n \in StepNodes(defs) : Has(NodeAt(defs, n), "swiftFile") /\ NodeAt(defs, n).swiftFile = path}

\* the tracking node that comes first in journey order, then step order
FirstTracking(defs, path) ==
    CHOOSE n \in TrackingNodes(defs, path) :
        \A m \in TrackingNodes(defs, path) : n[1] < m[1] \/ (n[1] = m[1] /\ n[2] <= m[2])

\* the properties of an object that hold a value
DefinedProps(r) == [f \in DOMAIN r \ {"undef"} |-> r[f]]

\* a graph as deep equality sees it: properties holding undefined count as absent
Structure(defs) ==
    LET ofJourney(j) ==
            IF Has(j, "steps")
            THEN [DefinedProps(j) EXCEPT !.steps = [k \in 1..Len(j.steps) |-> DefinedProps(j.steps[k])]]
            ELSE DefinedProps(j)
    IN IF Has(defs, "journeys")
       THEN [DefinedProps(defs) EXCEPT
                !.journeys = [k \in 1..Len(defs.journeys) |-> ofJourney(defs.journeys[k])]]
       ELSE DefinedProps(defs)

StructurallyEqual(a, b) == Structure(a) = Structure(b)

ChangesOf(result, action) == {c \in 1..Len(result.changes) : result.changes[c].action = action}

\* C13: merge(G, emptyDiff, []) returns a candidate structurally equal to G, an empty change
\* log and reviewCount 0
C13_EmptyDiffIdentity ==
    Merged /\ totalChanged(fn.scanResult) = 0 /\ fn.parsedViews = <<>> =>
        /\ StructurallyEqual(fn.result.defs, fn.current)
        /\ fn.result.changes = <<>>
        /\ fn.result.reviewCount = 0

\* merge with the empty diff has returned a graph with labelled edges as it was
C13_Witness ==
    /\ Merged
    /\ totalChanged(fn.scanResult) = 0
    /\ fn.current = GraphLabels
    /\ fn.result.defs = GraphLabels

AddedFiles ==
    {k \in 1..Len(fn.scanResult.newFiles) :
        /\ fn.scanResult.newFiles[k].content.struct # <<>>
        /\ TrackingNodes(fn.current, fn.scanResult.newFiles[k].path) = {}}

\* a step of the graph has, among its outgoing ids, a step of its journey whose screen is name
ReferencedIn(journey, name) ==
    \E si \in 1..Len(journey.steps) : \E n \in 1..Len(journey.steps[si].next) :
        \E k \in 1..Len(journey.steps) :
            /\ journey.steps[k].id = journey.steps[si].next[n]
            /\ journey.steps[k].screen = name

Referenced(defs, name) == \E ji \in 1..Len(defs.journeys) : ReferencedIn(defs.journeys[ji], name)

PrefixRule(path) ==
    \/ StartsWithDir(path, OnboardingPrefix)
    \/ StartsWithDir(path, SharePrefix)
    \/ StartsWithDir(path, ActionPrefix)

\* C15: an added file with a descriptor and an untracked path gives exactly one new node
\* (type from the descriptor, swiftFile = the path, needsReview) and exactly one add record;
\* without outgoing edges, without a node referencing it and without a prefix rule the node
\* is in the journey unassigned
C15_AddedFileOneNode ==
    Merged =>
        /\ \A k \in AddedFiles :
              LET file == fn.scanResult.newFiles[k]
                  tracking == TrackingNodes(fn.result.defs, file.path)
              IN /\ Cardinality(tracking) = 1
                 /\ \A n \in tracking :
                       LET node == NodeAt(fn.result.defs, n)
                           journey == fn.result.defs.journeys[n[1]]
                       IN /\ n \notin StepNodes(fn.current)
                          /\ node.type = file.content.type
                          /\ node.swiftFile = file.path
                          /\ Has(node, "needsReview") /\ node.needsReview
                          /\ \E c \in ChangesOf(fn.result, "add") :
                                /\ fn.result.changes[c].journeyId = journey.id
                                /\ fn.result.changes[c].stepId = node.id
                          /\ (/\ file.content.edges = <<>>
                              /\ ~Referenced(fn.current, file.content.struct)
                              /\ ~PrefixRule(file.path)) => journey.id = UnassignedId
        /\ Cardinality(ChangesOf(fn.result, "add")) = Cardinality(AddedFiles)
        /\ fn.result.reviewCount = Cardinality(AddedFiles)
        /\ Cardinality(StepNodes(fn.result.defs)) =
               Cardinality(StepNodes(fn.current)) + Cardinality(AddedFiles)

\* the only change is one added view without edges and without a prefix rule: the graph has
\* gained the journey unassigned with the one new node
C15_Witness ==
    /\ Merged
    /\ totalChanged(fn.scanResult) = 1
    /\ AddedFiles = {1}
    /\ fn.scanResult.newFiles[1].content.edges = <<>>
    /\ ~PrefixRule(fn.scanResult.newFiles[1].path)
    /\ fn.current = GraphMain
    /\ \E ji \in 1..Len(fn.result.defs.journeys) :
          /\ fn.result.defs.journeys[ji].id = UnassignedId
          /\ Len(fn.result.defs.journeys[ji].steps) = 1
    /\ Len(fn.result.changes) = 1

\* the container the three rules give a new node: prefix table, else the first journey in
\* which a step references the new entity, else unassigned
ExpectedContainer(defs, path, name) ==
    IF StartsWithDir(path, OnboardingPrefix) THEN FirstLaunchId
    ELSE IF StartsWithDir(path, SharePrefix) THEN CaptureViaShareId
    ELSE IF StartsWithDir(path, ActionPrefix) THEN CaptureViaActionId
    ELSE LET referencing == {ji \in 1..Len(defs.journeys) : ReferencedIn(defs.journeys[ji], name)}
         IN IF referencing # {}
            THEN defs.journeys[CHOOSE ji \in referencing : \A k \in referencing : ji <= k].id
            ELSE UnassignedId

\* C16: the container of a new node is given by the first applicable of the prefix table,
\* the container of an existing node referencing the new entity, and unassigned; by no
\* other rule
C16_ContainerRules ==
    Merged /\ Len(fn.scanResult.newFiles) = 1 =>
        \A k \in AddedFiles :
            LET file == fn.scanResult.newFiles[k]
            IN \A n \in TrackingNodes(fn.result.defs, file.path) :
                  fn.result.defs.journeys[n[1]].id =
                      ExpectedContainer(fn.current, file.path, file.content.struct)

\* the added files of the call whose path a step of the input tracks
Redelivered ==
    {k \in 1..Len(fn.scanResult.newFiles) :
        TrackingNodes(fn.current, fn.scanResult.newFiles[k].path) # {}}

\* C17: an added file whose path a step (tombstoned or not) already tracks changes nothing:
\* no second node for the path, no record, reviewCount not incremented; and merge applied
\* with the same diff to its own output returns the same graph and an empty change log
C17_RedeliveryGuard ==
    /\ Merged =>
          /\ \A k \in Redelivered :
                LET path == fn.scanResult.newFiles[k].path
                IN /\ TrackingNodes(fn.result.defs, path) = TrackingNodes(fn.current, path)
                   /\ \A n \in TrackingNodes(fn.current, path) :
                         /\ NodeAt(fn.result.defs, n) = DefinedProps(NodeAt(fn.current, n))
                         /\ \A c \in 1..Len(fn.result.changes) :
                               ~(/\ fn.result.changes[c].journeyId = fn.current.journeys[n[1]].id
                                 /\ fn.result.changes[c].stepId = NodeAt(fn.current, n).id)
          /\ AddedFiles = {} => ChangesOf(fn.result, "add") = {} /\ fn.result.reviewCount = 0
    /\ fn.op = "merge" /\ fn.pc = "again" =>
          /\ fn.again.defs = fn.result.defs
          /\ fn.again.changes = <<>>
          /\ fn.again.reviewCount = 0

\* the file of a tombstoned step was delivered as added, and merge ran twice
C17_Witness ==
    /\ fn.op = "merge" /\ fn.pc = "again"
    /\ fn.current = GraphC
    /\ Redelivered = {1}
    /\ Len(fn.scanResult.newFiles) = 2
    /\ Len(fn.result.changes) = 1
    /\ fn.again.changes = <<>>

\* the removed paths of the call that a step of the input tracks
RemovedTracked == {p \in Range(fn.scanResult.removedFiles) : TrackingNodes(fn.current, p) # {}}

\* C18: a removed file tracked by a live node sets the node's deprecated flag and logs exactly
\* one deprecate record; tracked by a tombstoned node it logs none; either way the node
\* stays in its journey with its other fields as they were
C18_RemovedFileTombstones ==
    Merged =>
        /\ \A p \in RemovedTracked :
              LET n == FirstTracking(fn.current, p)
                  old == DefinedProps(NodeAt(fn.current, n))
                  new == NodeAt(fn.result.defs, n)
                  records == {c \in 1..Len(fn.result.changes) :
                                 fn.result.changes[c] =
                                     Change("deprecate", fn.current.journeys[n[1]].id, old.id)}
              IN /\ fn.result.defs.journeys[n[1]].id = fn.current.journeys[n[1]].id
                 /\ IF IsTombstoned(old)
                    THEN new = old /\ records = {}
                    ELSE new = Put(old, "deprecated", TRUE) /\ Cardinality(records) = 1
        /\ Cardinality(ChangesOf(fn.result, "deprecate")) =
               Cardinality({p \in RemovedTracked :
                               ~IsTombstoned(NodeAt(fn.current, FirstTracking(fn.current, p)))})

\* the files of a tombstoned step and of a live step were removed: one record
C18_Witness ==
    /\ Merged
    /\ fn.current = GraphC
    /\ fn.scanResult.removedFiles = <<PathB, PathC>>
    /\ Cardinality(ChangesOf(fn.result, "deprecate")) = 1
    /\ \A n \in StepNodes(fn.result.defs) : IsTombstoned(NodeAt(fn.result.defs, n))

\* the modified files of the call that have a descriptor and a path a step of the input tracks
ModifiedTracked ==
    {k \in 1..Len(fn.scanResult.modifiedFiles) :
        /\ fn.scanResult.modifiedFiles[k].content.struct # <<>>
        /\ TrackingNodes(fn.current, fn.scanResult.modifiedFiles[k].path) # {}}

\* C19: for a modified file tracked by a node, when the newly resolved id list differs from
\* the stored one, next is replaced by it, edgeLabels (when longer) is cut to that length
\* and exactly one update-edges record is logged; when it is equal, node and log are unchanged
C19_ModifiedFileEdges ==
    Merged =>
        \A k \in ModifiedTracked :
            LET file == fn.scanResult.modifiedFiles[k]
                n == FirstTracking(fn.current, file.path)
                old == DefinedProps(NodeAt(fn.current, n))
                new == NodeAt(fn.result.defs, n)
                resolved == resolveNext(parseSwiftFile(file.path, file.content), fn.result.defs)
                records == {c \in 1..Len(fn.result.changes) :
                               fn.result.changes[c] =
                                   Change("update-edges", fn.current.journeys[n[1]].id, old.id)}
                cut == IF Has(old, "edgeLabels") /\ Len(old.edgeLabels) > Len(resolved)
                       THEN [old EXCEPT !.edgeLabels = SubSeq(@, 1, Len(resolved))]
                       ELSE old
            IN IF resolved # old.next
               THEN new = [cut EXCEPT !.next = resolved] /\ Cardinality(records) = 1
               ELSE new = old /\ records = {}

\* next [cc, aa] with labels [Yes, No] has shrunk to [cc] with labels [Yes]
C19_Witness ==
    /\ Merged
    /\ fn.current = GraphLabels
    /\ ModifiedTracked = {1}
    /\ NodeAt(fn.result.defs, <<1, 1>>).next = <<slugify(NameCc)>>
    /\ NodeAt(fn.result.defs, <<1, 1>>).edgeLabels = <<"Yes">>
    /\ Len(fn.result.changes) = 1

LabelsFit(defs) ==
    \A n \in StepNodes(defs) :
        Has(NodeAt(defs, n), "edgeLabels") =>
            Len(NodeAt(defs, n).edgeLabels) <= Len(NodeAt(defs, n).next)

\* C20: in every graph the validator accepts, no node has more edge labels than outgoing ids
C20_LabelsFit ==
    Merged /\ validate(fn.current, fn.result.defs).ok => LabelsFit(fn.result.defs)

\* the first step, in journey order then step order, whose screen is name; <<0, 0>> for none
FirstWithScreen(defs, name) ==
    LET shows == {n \in StepNodes(defs) : Has(NodeAt(defs, n), "screen") /\ NodeAt(defs, n).screen = name}
    IN IF shows = {} THEN <<0, 0>>
       ELSE CHOOSE n \in shows : \A m \in shows : n[1] < m[1] \/ (n[1] = m[1] /\ n[2] <= m[2])

\* one id per edge target: the id of the first step showing it, nothing when no step does
RECURSIVE FirstMatchIds(_, _, _)
FirstMatchIds(edges, i, defs) ==
    IF i = 0 THEN <<>>
    ELSE LET before == FirstMatchIds(edges, i - 1, defs)
             n == FirstWithScreen(defs, edges[i].destination)
         IN IF n = <<0, 0>> \/ Includes(before, NodeAt(defs, n).id) THEN before
            ELSE Append(before, NodeAt(defs, n).id)

\* C21: the outgoing ids of an added or modified view are, edge by edge, the id of the first
\* step of the graph whose screen is the edge's target (one id per target); a target that no
\* step shows contributes nothing
C21_FirstMatchPerTarget ==
    Merged /\ totalChanged(fn.scanResult) = 1 =>
        /\ \A k \in AddedFiles :
              LET file == fn.scanResult.newFiles[k]
              IN \A n \in TrackingNodes(fn.result.defs, file.path) :
                    NodeAt(fn.result.defs, n).next =
                        FirstMatchIds(file.content.edges, Len(file.content.edges), fn.current)
        /\ \A k \in ModifiedTracked :
              LET file == fn.scanResult.modifiedFiles[k]
              IN NodeAt(fn.result.defs, FirstTracking(fn.current, file.path)).next =
                    FirstMatchIds(file.content.edges, Len(file.content.edges), fn.current)

\* the journey ids of a graph and its pairs <<journey id, step id>>
JourneyIds(defs) == {JourneysOrEmpty(defs)[ji].id : ji \in 1..Len(JourneysOrEmpty(defs))}

StepPairs(defs) == {<<defs.journeys[n[1]].id, NodeAt(defs, n).id>> : n \in StepNodes(defs)}

Keeps(before, after) ==
    /\ JourneyIds(before) \subseteq JourneyIds(after)
    /\ StepPairs(before) \subseteq StepPairs(after)

\* C22: merge removes nothing: every journey id and every pair of journey id and step id of
\* the current graph is in the candidate, for every graph and every diff
C22_MergeNeverRemoves ==
    /\ Merged => Keeps(fn.current, fn.result.defs)
    /\ fn.op = "merge" /\ fn.pc = "again" => Keeps(fn.result.defs, fn.again.defs)

\* the file of a live step was removed: the step is still there, marked deprecated
C22_Witness ==
    /\ Merged
    /\ fn.current = GraphMain
    /\ fn.scanResult.removedFiles = <<PathC>>
    /\ Cardinality(ChangesOf(fn.result, "deprecate")) = 1
    /\ Cardinality(StepNodes(fn.result.defs)) = 2
    /\ IsTombstoned(NodeAt(fn.result.defs, <<1, 1>>))

(***************************************************************************)
(* parseSwiftFile as a function of the text                                *)
(***************************************************************************)
MarkerNames == <<"body", "input", "condnav", "button", "dismiss", "background">>

\* the text that shows one marker of the type inference
MarkerText(m) ==
    IF m = "body" THEN <<Kw("var"), Kw("body"), Kw(":")>>
    ELSE IF m = "input" THEN <<Kw("Toggle"), Kw("("), Kw(")")>>
    ELSE IF m = "condnav" THEN <<Kw("if"), Id(<<"x">>), Kw("{"), Kw("NavigationLink"), Kw("}")>>
    ELSE IF m = "button" THEN <<Kw("Button"), Kw("("), Kw(")")>>
    ELSE IF m = "dismiss" THEN <<Kw("dismiss"), Kw("("), Kw(")")>>
    ELSE <<Kw(".task"), Kw("{"), Kw("}")>>

RECURSIVE MarkersText(_, _)
MarkersText(ms, i) ==
    IF i > Len(MarkerNames) THEN <<>>
    ELSE (IF MarkerNames[i] \in ms THEN MarkerText(MarkerNames[i]) ELSE <<>>)
         \o MarkersText(ms, i + 1)

NoEdge == [none |-> TRUE]

Presents(head, inner, edge) ==
    [text |-> head \o <<Kw("{")>> \o inner \o <<Kw("}")>>, edge |-> edge]

Call(name) == <<Id(name), Kw("("), Kw(")")>>

Modifier(name) == <<Kw(name), Kw("("), Kw(")")>>

\* navigation constructs of the fixtures of sync.test.ts, and three that bend them: text
\* before the view, a second view in one closure, a nested closure before the view
EdgeFragments ==
    {Presents(Modifier(".sheet"), Call(NameCc), Edge(NameCc, "sheet")),
     Presents(Modifier(".sheet"), <<Kw("Text"), Kw("("), Kw(")")>> \o Call(NameAa) \o Call(NameCc),
              Edge(NameAa, "sheet")),
     Presents(Modifier(".sheet"), <<Kw("VStack"), Kw("{")>> \o Call(NameCc) \o <<Kw("}")>>, NoEdge),
     Presents(Modifier(".fullScreenCover"), Call(NameCc), Edge(NameCc, "fullScreenCover")),
     Presents(<<Kw("NavigationLink")>>, Call(NameCc), Edge(NameCc, "navigationLink")),
     Presents(Modifier(".navigationDestination"), Call(NameAa), Edge(NameAa, "navigationDestination")),
     Presents(<<Kw("Tab")>>, Call(NameAa), Edge(NameAa, "tabView"))}

RECURSIVE FragmentsText(_, _)
FragmentsText(fs, i) == IF i > Len(fs) THEN <<>> ELSE fs[i].text \o FragmentsText(fs, i + 1)

\* struct: the name of the struct declared as a View, <<>> for a file that declares a class
ParseInput(struct, ms, fs) ==
    [op |-> "parse", pc |-> "call", struct |-> struct, markers |-> ms, fragments |-> fs,
     content |-> [text |-> (IF struct = <<>> THEN <<Kw("class"), Id(<<"F", "o", "o">>), Kw("{")>>
                            ELSE <<Kw("struct"), Id(struct), Kw(":"), Kw("View"), Kw("{")>>)
                           \o MarkersText(ms, 1) \o FragmentsText(fs, 1) \o <<Kw("}")>>],
     result |-> Nil]

\* the texts with up to maxFragments navigation constructs
ParseInputs(maxFragments) ==
    {ParseInput(n, ms, fs) : n \in {NameBb, <<>>}, ms \in SUBSET Range(MarkerNames),
                             fs \in SeqsUpTo(EdgeFragments, 1)}
    \cup {ParseInput(NameBb, {"body"}, fs) : fs \in SeqsUpTo(EdgeFragments, maxFragments)}

InitParse == SchedulerOff /\ fn \in ParseInputs(MaxEdgeFragments)

\* parseSwiftFile(filePath, content) is called
ParseCall ==
    /\ fn.op = "parse"
    /\ fn.pc = "call"
    /\ fn' = [fn EXCEPT !.pc = "done", !.result = parseSwiftFile(PathB, fn.content)]
    /\ UNCHANGED schedVars

NextParse == ParseCall

SpecParse == InitParse /\ [][NextParse]_vars

Parsed == fn.op = "parse" /\ fn.pc = "done"

(***************************************************************************)
(* Properties of validate: completeness of the error list                  *)
(***************************************************************************)
ErrorCount(kind) ==
    Cardinality({e \in 1..Len(fn.result.errors) : fn.result.errors[e].kind = kind})

\* the live steps of previous, under the journey id jid, whose id no step of journey j has
GoneFrom(j, jid) ==
    {n \in StepNodes(fn.current) :
        /\ fn.current.journeys[n[1]].id = jid
        /\ ~IsTombstoned(NodeAt(fn.current, n))
        /\ ~\E k \in 1..Len(StepsOrEmpty(j)) :
               Has(j.steps[k], "id") /\ j.steps[k].id = NodeAt(fn.current, n).id}

\* C23: after the top-level shape check validate does not short-circuit: each step without
\* id, label, swiftFile, type or next array and each journey without steps array has its own
\* entry in errors whatever else is wrong with the same step or journey, and each live step
\* of previous that is gone from a journey of the candidate has its entry as well
C23_NoShortCircuit ==
    Validated /\ Has(fn.incoming, "journeys") =>
        LET cand == fn.incoming
            nodes == StepNodes(cand)
        IN /\ ErrorCount("step-missing-id") =
                  Cardinality({n \in nodes : ~Truthy(NodeAt(cand, n), "id")})
           /\ ErrorCount("missing-label") =
                  Cardinality({n \in nodes : ~Truthy(NodeAt(cand, n), "label")})
           /\ ErrorCount("missing-swiftFile") =
                  Cardinality({n \in nodes : ~Has(NodeAt(cand, n), "swiftFile")})
           /\ ErrorCount("missing-type") =
                  Cardinality({n \in nodes : ~TruthyEnum(NodeAt(cand, n), "type")})
           /\ ErrorCount("missing-next") =
                  Cardinality({n \in nodes : ~Has(NodeAt(cand, n), "next")})
           /\ ErrorCount("missing-steps-array") =
                  Cardinality({ji \in 1..Len(cand.journeys) : ~Has(cand.journeys[ji], "steps")})
           /\ \A ji \in 1..Len(cand.journeys) :
                  Truthy(cand.journeys[ji], "id") =>
                      \A n \in GoneFrom(cand.journeys[ji], cand.journeys[ji].id) :
                          \E e \in 1..Len(fn.result.errors) :
                              /\ fn.result.errors[e].kind = "step-removed"
                              /\ fn.result.errors[e].journey = cand.journeys[ji].id
                              /\ fn.result.errors[e].step = NodeAt(fn.current, n).id

\* checks 3-7 of the specification on one journey of the candidate
JourneyWellFormed(j) ==
    /\ Truthy(j, "id") /\ Truthy(j, "name") /\ Has(j, "description") /\ Has(j, "steps")
    /\ \A k \in 1..Len(j.steps) :
          LET s == j.steps[k]
          IN /\ Truthy(s, "id") /\ Truthy(s, "label") /\ Has(s, "swiftFile")
             /\ TruthyEnum(s, "type") /\ Has(s, "next")
             /\ s.type \in VALID_TYPES
             /\ \A m \in 1..Len(j.steps) : j.steps[m].id = s.id => m = k
             /\ \A n \in 1..Len(s.next) : \E m \in 1..Len(j.steps) : j.steps[m].id = s.next[n]

\* the candidate violates none of the checks 1-8 of the specification
ViolatesNone(prev, cand) ==
    /\ Has(cand, "journeys")
    /\ Len(cand.journeys) - Len(JourneysOrEmpty(prev)) \in -MaxJourneysRemoved..MaxJourneysAdded
    /\ \A ji \in 1..Len(cand.journeys) : JourneyWellFormed(cand.journeys[ji])
    /\ ~VanishedStep(prev, cand)

\* container ids are unique across a graph
DistinctJourneyIds(defs) ==
    \A a \in 1..Len(JourneysOrEmpty(defs)) : \A b \in 1..Len(JourneysOrEmpty(defs)) :
        JourneyIdText(defs.journeys[a]) = JourneyIdText(defs.journeys[b]) => a = b

\* C24: validate returns ok = true with an empty error list exactly when the candidate
\* violates none of the checks 1-8; in particular validate(G, G) is ok for such a G
C24_OkIffNoViolation ==
    Validated /\ DistinctJourneyIds(fn.incoming) =>
        /\ fn.result.ok <=> fn.result.errors = <<>>
        /\ fn.result.ok <=> ViolatesNone(fn.current, fn.incoming)

(***************************************************************************)
(* Properties of scan and of the status surface                            *)
(***************************************************************************)
EmptyDiff(res) == res.newFiles = <<>> /\ res.removedFiles = <<>> /\ res.modifiedFiles = <<>>

\* chain i receives the result of scan in this step
ScanReturns(i) == At(i, "scan") /\ chains'[i].pc \in {"skip_save", "load"}

C26_FetchFailureAborts ==
    [][\A i \in Chains :
          chains[i].unread # {} => graphFile' = graphFile /\ cursorFile' = cursorFile]_vars

\* C27: at every cycle boundary the lastCommit of the status surface is the persisted cursor,
\* and updatesApplied and pendingReview count only cycles whose graph was persisted, also
\* after a cycle whose cursor write failed
C27_StatusReflectsStorage ==
    AtBoundary =>
        /\ state.lastCommit = cursorFile
        /\ state.updatesApplied > 0 \/ state.pendingReview > 0 => obs.written

(***************************************************************************)
(* Properties of parseSwiftFile                                            *)
(***************************************************************************)
\* the category of the first rule, in the order input, decision, action, system, whose
\* condition the markers of the text satisfy; display when none does
Cascade(ms) ==
    IF "input" \in ms THEN "input"
    ELSE IF "condnav" \in ms THEN "decision"
    ELSE IF "button" \in ms /\ "dismiss" \in ms THEN "action"
    ELSE IF "body" \notin ms \/ ("button" \notin ms /\ "background" \in ms) THEN "system"
    ELSE "display"

\* C28: the inferred category is that of the first rule that holds, in the order input,
\* decision, action, system, display, for every combination of the six markers
C28_TypeCascade ==
    Parsed /\ fn.struct # <<>> => fn.result.inferredType = Cascade(fn.markers)

\* a text with a body, an input control and a conditional navigation is an input
C28_Witness ==
    /\ Parsed
    /\ fn.struct # <<>>
    /\ {"input", "condnav", "body"} \subseteq fn.markers
    /\ fn.result.inferredType = "input"

MechanismOrder == <<"sheet", "fullScreenCover", "navigationLink", "navigationDestination", "tabView">>

RuleOf(edge) == FirstOf({r \in 1..Len(MechanismOrder) : MechanismOrder[r] = edge.mechanism})

FirstSeen(edge) == FirstOf({k \in 1..Len(fn.fragments) : fn.fragments[k].edge = edge})

\* C29: the edges of a descriptor hold each pair of target and mechanism once, one for every
\* pair some rule matches, in the order of the first match: rules in table order, matches
\* of one rule in text order
C29_EdgesOnceInScanOrder ==
    Parsed /\ fn.struct # <<>> =>
        LET edges == fn.result.presentsTo
        IN /\ \A a \in 1..Len(edges) : \A b \in 1..Len(edges) : edges[a] = edges[b] => a = b
           /\ Range(edges) = {fn.fragments[k].edge : k \in 1..Len(fn.fragments)} \ {NoEdge}
           /\ \A a \in 1..Len(edges) : \A b \in 1..Len(edges) :
                  a < b => \/ RuleOf(edges[a]) < RuleOf(edges[b])
                           \/ /\ RuleOf(edges[a]) = RuleOf(edges[b])
                              /\ FirstSeen(edges[a]) < FirstSeen(edges[b])

\* a link to CcView, then two sheets that present CcView: the sheet comes first, once
C29_Witness ==
    /\ Parsed
    /\ Len(fn.fragments) = 3
    /\ fn.fragments[1].edge = Edge(NameCc, "navigationLink")
    /\ fn.fragments[2].edge = Edge(NameCc, "sheet")
    /\ fn.fragments[3] = fn.fragments[2]
    /\ fn.result.presentsTo = <<Edge(NameCc, "sheet"), Edge(NameCc, "navigationLink")>>

\* the added and modified files of the call that declare no struct that is a View
Unmarked ==
    {f \in Range(fn.scanResult.newFiles) \cup Range(fn.scanResult.modifiedFiles) :
        f.content.struct = <<>>}

\* C30: a file without defining-entity marker has no descriptor and raises no error; it
\* adds no node, changes no node that tracks it and leaves no record in the change log
C30_UnmarkedFileSkipped ==
    Merged =>
        /\ \A f \in Unmarked :
              /\ \A v \in 1..Len(fn.parsedViews) : fn.parsedViews[v].filePath # f.path
              /\ TrackingNodes(fn.result.defs, f.path) = TrackingNodes(fn.current, f.path)
              /\ \A n \in TrackingNodes(fn.current, f.path) :
                    /\ NodeAt(fn.result.defs, n) = DefinedProps(NodeAt(fn.current, n))
                    /\ \A c \in 1..Len(fn.result.changes) :
                          ~(/\ fn.result.changes[c].journeyId = fn.current.journeys[n[1]].id
                            /\ fn.result.changes[c].stepId = NodeAt(fn.current, n).id)
        /\ Cardinality(Unmarked) = totalChanged(fn.scanResult) =>
              /\ fn.result.changes = <<>>
              /\ fn.result.reviewCount = 0
              /\ StructurallyEqual(fn.result.defs, fn.current)

\* the file of a step that presents two views was rewritten without its struct: the step
\* keeps its edges and nothing is logged
C30_Witness ==
    /\ Merged
    /\ fn.current = GraphPlaceholder
    /\ fn.scanResult.modifiedFiles # <<>>
    /\ Unmarked = Range(fn.scanResult.modifiedFiles)
    /\ totalChanged(fn.scanResult) = 1
    /\ fn.parsedViews = <<>>
    /\ Len(NodeAt(fn.result.defs, <<1, 1>>).next) = 2
    /\ fn.result.changes = <<>>

(***************************************************************************)
(* Properties of the first poll                                            *)
(***************************************************************************)
\* the tracked files present in a tree
TrackedIn(tree) == {p \in Paths : isWatched(p) /\ tree[p] # NoFile}

Delivered(res) == {res.newFiles[k].path : k \in DOMAIN res.newFiles}

\* C31: when no cursor is known, the poll performs a full scan: every tracked file present
\* at the current revision is handed to the pipeline as an added file
C31_FirstPollFullScan ==
    [][\A i \in Chains :
          ScanReturns(i) /\ state.lastCommit = NoSha =>
              TrackedIn(history[HeadRev]) \subseteq Delivered(chains'[i].scanResult)]_vars

(***************************************************************************)
(* Properties of merge checked by the validator                            *)
(***************************************************************************)
\* the errors of one kind that validate reports for the candidate merge returned
MergeErrors(kind) ==
    LET errors == validate(fn.current, fn.result.defs).errors
    IN {e \in 1..Len(errors) : errors[e].kind = kind}

\* C32: every outgoing id merge writes is the id of a node of the node's own container: the
\* candidate merged from a graph with reference integrity passes the reference check of
\* validate, also when the target node lives in another container
C32_MergedRefsInContainer ==
    Merged /\ fn.current \in MergeGraphs /\ RefIntegrity(fn.current) =>
        MergeErrors("next-ref-not-found") = {}

\* no two nodes of one container have the same id
UniqueStepIds(defs) ==
    \A n \in StepNodes(defs) : \A m \in StepNodes(defs) :
        n[1] = m[1] /\ NodeAt(defs, n).id = NodeAt(defs, m).id => n = m

\* C33: merge keeps node ids unique within each container: the candidate merged from a graph
\* with unique ids has unique ids and passes the duplicate check of validate, also when two
\* paths define the same entity name
C33_MergeKeepsIdsUnique ==
    Merged /\ fn.current \in MergeGraphs /\ UniqueStepIds(fn.current) =>
        /\ UniqueStepIds(fn.result.defs)
        /\ MergeErrors("duplicate-step-id") = {}

JourneysCreated == Len(fn.result.defs.journeys) - Len(fn.current.journeys)

\* C34: merge creates at most 3 new containers in one call, so validate never reports the
\* candidate merge returned for too many added containers
C34_MergeWithinContainerBound ==
    Merged /\ fn.current \in MergeGraphs =>
        /\ JourneysCreated <= MaxJourneysAdded
        /\ MergeErrors("too-many-journeys-added") = {}

(***************************************************************************)
(* Properties of merge on the order of the diff                            *)
(***************************************************************************)
Reverse(s) == [k \in 1..Len(s) |-> s[Len(s) + 1 - k]]

\* the result of the same call with the added files listed in the opposite order
Reordered == merge(fn.current, [fn.scanResult EXCEPT !.newFiles = Reverse(@)], fn.parsedViews)

\* C35: the candidate does not depend on the order of the added files in the diff: the node
\* of each added file has the same outgoing ids and the same container whichever order the
\* files are listed in
C35_AddedOrderIrrelevant ==
    Merged /\ fn.current \in MergeGraphs =>
        \A k \in DOMAIN fn.scanResult.newFiles :
            LET path == fn.scanResult.newFiles[k].path
                a == fn.result.defs
                b == Reordered.defs
            IN TrackingNodes(a, path) # {} /\ TrackingNodes(b, path) # {} =>
                 LET n == FirstTracking(a, path)
                     m == FirstTracking(b, path)
                 IN /\ NodeAt(a, n).next = NodeAt(b, m).next
                    /\ a.journeys[n[1]].id = b.journeys[m[1]].id

(***************************************************************************)
(* The poll loop when no external step fails: scan, reads and writes       *)
(* resolve, every armed timer fires, every await returns                   *)
(***************************************************************************)
\* scan resolves and every content fetch succeeds
ScanOk(i) ==
    /\ ScanNoChange(i) \/ ScanChanged(i)
    /\ chains'[i].unread = {}

\* the next step of chain i when nothing throws
CycleStep(i) ==
    \/ TickFire(i)
    \/ LogTickOk(i)
    \/ ScanOk(i)
    \/ SkipSaveOk(i)
    \/ LoadOk(i)
    \/ ValidateOk(i)
    \/ ValidateReject(i)
    \/ RejectLogOk(i)
    \/ BaselineDone(i)
    \/ WriteOk(i)
    \/ ExportDone(i)
    \/ SaveOk(i)
    \/ LogAppliedOk(i)

NextLive ==
    \/ Commit
    \/ CooldownFire
    \/ \E i \in Chains : CycleStep(i)

\* chain i has a step to take: ENABLED <<CycleStep(i)>>_vars, stated on the position of
\* the chain (a tick that finds the daemon paused re-arms the same timer and changes nothing)
CanStep(i) ==
    /\ chains[i].pc \notin {"none", "catch"}
    /\ chains[i].pc = "armed" =>
          state.status = "running" \/ chains[i] # ArmedChain \/ pollTimer # i

\* timers fire and awaited calls return: the cooldown timer and each chain make progress
\* (weak fairness of CycleStep(i), written out with CanStep(i) as its enabling condition)
SpecLive ==
    /\ Init
    /\ [][NextLive]_vars
    /\ WF_vars(CooldownFire)
    /\ \A i \in Chains : []<>(~CanStep(i)) \/ []<><<CycleStep(i)>>_vars

\* C36: when the source tree stops changing at revision r and no external step fails, the
\* persisted cursor eventually equals r, also after a cycle whose candidate was rejected
C36_CursorCatchesUp ==
    \A r \in 1..MaxRev : <>[](HeadRev = r) => <>(cursorFile = r)

(***************************************************************************)
(* Properties of the error counter                                         *)
(***************************************************************************)
\* chain i ends a failed cycle in this step
FailedCycleEnds(i) ==
    /\ chains[i].pc \in {"reject_log", "catch"}
    /\ chains'[i].pc \in {"armed", "none"}

\* C37: at every cycle boundary 0 <= consecutiveErrors <= 5, the status is Paused exactly
\* when consecutiveErrors = 5 and is never anything but Running or Paused, exactly one
\* cooldown timer is pending while Paused; and each failed cycle leaves consecutiveErrors
\* one higher than it was at the start of the cycle
C37_ErrorCounterAndPause ==
    /\ [](AtBoundary =>
            /\ state.consecutiveErrors \in 0..ErrorThreshold
            /\ state.status \in {"running", "paused"}
            /\ state.status = "paused" <=> state.consecutiveErrors = ErrorThreshold
            /\ state.status = "paused" => cooldowns = 1)
    /\ [][\A i \in Chains :
            FailedCycleEnds(i) => state'.consecutiveErrors = chains[i].start.errors + 1]_vars

(***************************************************************************)
(* daemon.ts: PUT /api/workflows while the poll loop runs                  *)
(***************************************************************************)
\* a document saved from the editor: the graph it was given, with every step marked reviewed
Reviewed(defs) ==
    [defs EXCEPT !.journeys = [ji \in 1..Len(defs.journeys) |->
        [defs.journeys[ji] EXCEPT !.steps = [si \in 1..Len(defs.journeys[ji].steps) |->
            IF Has(defs.journeys[ji].steps[si], "needsReview")
            THEN [defs.journeys[ji].steps[si] EXCEPT !.needsReview = FALSE]
            ELSE defs.journeys[ji].steps[si]]]]]

\* the handler of PUT /api/workflows: the body replaces workflow-defs.json, unvalidated
EditorPut ==
    /\ graphFile.exists
    /\ graphFile' = [exists |-> TRUE, defs |-> Reviewed(graphFile.defs)]
    /\ UNCHANGED <<history, cursorFile, state, pollTimer, chains, cooldowns, obs, fn>>

NextEditor ==
    \/ EditorPut
    \/ NextLive

SpecEditor == Init /\ [][NextEditor]_vars

\* chain i replaces workflow-defs.json with its candidate in this step
WritesGraph(i) == At(i, "write") /\ chains'[i].pc = "export"

\* C38: a committing cycle replaces only the graph it merged from: the document on disk
\* immediately before the write of the candidate is the snapshot the cycle loaded, so a
\* version saved from the editor in between is not lost
C38_WriteReplacesSnapshot ==
    [][\A i \in Chains : WritesGraph(i) => graphFile.defs = chains[i].currentDefs]_vars

(***************************************************************************)
(* Properties of merge on files that concern no node                       *)
(***************************************************************************)
Untracked(path) == TrackingNodes(fn.current, path) = {}

NoDescriptor(path) == ParsedByPath(fn.parsedViews, path) = 0

\* the diff holds only modified or removed files that no node tracks and added or modified
\* files without descriptor
InertDiff ==
    /\ totalChanged(fn.scanResult) > 0
    /\ \A k \in DOMAIN fn.scanResult.newFiles : NoDescriptor(fn.scanResult.newFiles[k].path)
    /\ \A k \in DOMAIN fn.scanResult.removedFiles : Untracked(fn.scanResult.removedFiles[k])
    /\ \A k \in DOMAIN fn.scanResult.modifiedFiles :
         \/ Untracked(fn.scanResult.modifiedFiles[k].path)
         \/ NoDescriptor(fn.scanResult.modifiedFiles[k].path)

\* C39: nodes are created only for added files: a modified file that no node tracks (even
\* with a descriptor), a removed file that no node tracks, and an added or modified file
\* without descriptor leave the candidate equal to the current graph and emit no record
C39_OnlyAddsCreateNodes ==
    Merged /\ fn.current \in MergeGraphs /\ InertDiff =>
        /\ StructurallyEqual(fn.result.defs, fn.current)
        /\ fn.result.changes = <<>>
        /\ fn.result.reviewCount = 0

\* a modified file with a descriptor that no node tracks, together with a removed file that
\* no node tracks, went through merge
C39_Witness ==
    /\ Merged
    /\ fn.current \in MergeGraphs
    /\ InertDiff
    /\ fn.scanResult.removedFiles # <<>>
    /\ \E k \in DOMAIN fn.scanResult.modifiedFiles :
         /\ Untracked(fn.scanResult.modifiedFiles[k].path)
         /\ ~NoDescriptor(fn.scanResult.modifiedFiles[k].path)
    /\ StepNodes(fn.current) # {}

====
